---- MODULE Spec2Model ----
(***************************************************************************)
(* A model of the typed WARC record of rust-warc (src/src/record.rs):      *)
(* RawRecord, Record<BufferedBody>, its accessors and setters, the         *)
(* conversion TryFrom<RawRecord>, the synthesis into_raw_parts, the text   *)
(* form Display for RawRecord and RecordBuilder; and of the streaming      *)
(* grammar parser (src/src/parser.rs).                                     *)
(*                                                                         *)
(* Text is modelled as sequences of bytes (0..255).  An Option<T> is a     *)
(* sequence of length 0 (None) or 1 (Some).  A HashMap<WarcHeader, _> is a *)
(* function whose domain is a subset of the header keys.                   *)
(***************************************************************************)
EXTENDS Integers, Sequences, FiniteSets, TLC

VARIABLES
    mode,   \* "raw": the caller is filling a RawRecord; "typed": it holds a Record
    raw,    \* the RawRecord the caller is filling (public fields)
    rec,    \* the typed Record<BufferedBody> the caller holds
    pre,    \* the typed record as it was before the last operation
    last,   \* the last operation: its inputs and what it returned
    builder, \* the RecordBuilder the caller drives
    bpre,   \* the builder as it was before the last builder call
    failed, \* history: the error of the most recent header assignment that failed
    doc,    \* the bytes a source holds, by their parts, for the reader to pull
    input,  \* the bytes in the reader's buffer / the bytes written
    parsed  \* what the last call of the parser's record() returned

vars == <<mode, raw, rec, pre, last, builder, bpre, failed, doc, input, parsed>>

\* The variables the calls on raw and typed records leave alone.
others == <<builder, bpre, failed, doc, input, parsed>>

\* ------------------------------------------------------------------ bounds

\* The longest body the caller supplies.
MaxBody == 2

\* ------------------------------------------------------------------- texts

\* "WARC/1.0"
T_warc10 == <<87, 65, 82, 67, 47, 49, 46, 48>>
\* "1.1"
T_ver11 == <<49, 46, 49>>
\* "resource"
T_resource == <<114, 101, 115, 111, 117, 114, 99, 101>>
\* "request"
T_request == <<114, 101, 113, 117, 101, 115, 116>>
\* "revisit"
T_revisit == <<114, 101, 118, 105, 115, 105, 116>>
\* "warcinfo"
T_warcinfo == <<119, 97, 114, 99, 105, 110, 102, 111>>
\* "dunno"
T_dunno == <<100, 117, 110, 110, 111>>
\* "length"
T_length == <<108, 101, 110, 103, 116, 104>>
\* "disconnect"
T_disconnect == <<100, 105, 115, 99, 111, 110, 110, 101, 99, 116>>
\* "foreign-intervention"
T_foreign == <<102, 111, 114, 101, 105, 103, 110, 45, 105, 110, 116, 101, 114, 118, 101, 110, 116, 105, 111, 110>>
\* "<urn:test:basic-record:record-0>"
T_id_test == <<60, 117, 114, 110, 58, 116, 101, 115, 116, 58, 98, 97, 115, 105, 99, 45, 114, 101, 99, 111, 114, 100, 58, 114, 101, 99, 111, 114, 100, 45, 48, 62>>
\* "2020-07-08T02:52:55Z"
T_date_a == <<50, 48, 50, 48, 45, 48, 55, 45, 48, 56, 84, 48, 50, 58, 53, 50, 58, 53, 53, 90>>
\* "2020-07-21T22:00:00Z"
T_date_b == <<50, 48, 50, 48, 45, 48, 55, 45, 50, 49, 84, 50, 50, 58, 48, 48, 58, 48, 48, 90>>
\* "2020-07-21T23:00:00+01:00": the instant of T_date_b, written at +01:00
T_date_b_offset == <<50, 48, 50, 48, 45, 48, 55, 45, 50, 49, 84, 50, 51, 58, 48, 48, 58, 48, 48, 43, 48, 49, 58, 48, 48>>
\* "2020-07-08T02:52:55"
T_civil_a == <<50, 48, 50, 48, 45, 48, 55, 45, 48, 56, 84, 48, 50, 58, 53, 50, 58, 53, 53>>
\* "2020-07-21T22:00:00"
T_civil_b == <<50, 48, 50, 48, 45, 48, 55, 45, 50, 49, 84, 50, 50, 58, 48, 48, 58, 48, 48>>
\* "2020-07-21T21:59:59"
T_civil_now == <<50, 48, 50, 48, 45, 48, 55, 45, 50, 49, 84, 50, 49, 58, 53, 57, 58, 53, 57>>
\* "yesterday"
T_yesterday == <<121, 101, 115, 116, 101, 114, 100, 97, 121>>
\* "https://www.rust-lang.org"
T_uri_a == <<104, 116, 116, 112, 115, 58, 47, 47, 119, 119, 119, 46, 114, 117, 115, 116, 45, 108, 97, 110, 103, 46, 111, 114, 103>>
\* "https://docs.rs"
T_uri_b == <<104, 116, 116, 112, 115, 58, 47, 47, 100, 111, 99, 115, 46, 114, 115>>
\* "+1"
T_plus1 == <<43, 49>>
\* "01"
T_01 == <<48, 49>>
\* "R2D2"
T_R2D2 == <<82, 50, 68, 50>>
\* one byte 0xFF, which no UTF-8 text contains
T_bad_utf8 == <<255>>

\* ------------------------------------------------------- Option and Result

None == <<>>
Some(x) == <<x>>
IsSome(o) == Len(o) = 1
Unwrap(o) == o[1]

\* ------------------------------------------------------------ std: strings

\* String::from_utf8 / str::from_utf8 succeed on these bytes.  One-byte
\* (ASCII) and two-byte sequences are decoded; every other lead byte is
\* rejected (the model's texts hold no three- or four-byte sequence).
RECURSIVE Utf8From(_, _)
Utf8From(b, i) ==
    IF i > Len(b) THEN TRUE
    ELSE IF b[i] < 128 THEN Utf8From(b, i + 1)
    ELSE IF b[i] >= 194 /\ b[i] <= 223
         THEN i + 1 <= Len(b) /\ b[i + 1] >= 128 /\ b[i + 1] <= 191
              /\ Utf8From(b, i + 2)
    ELSE FALSE

from_utf8_ok(b) == Utf8From(b, 1)

IsDigit(c) == c >= 48 /\ c <= 57

\* The value of the decimal digits d (a non-empty sequence of digit bytes).
RECURSIVE DigitsValue(_)
DigitsValue(d) ==
    IF Len(d) = 0 THEN 0
    ELSE 10 * DigitsValue(SubSeq(d, 1, Len(d) - 1)) + (d[Len(d)] - 48)

\* str::parse::<u64>: an optional '+', then one or more decimal digits.
\* Some(value), or None for the parse error.  (The overflow error of values
\* of 2^64 and more is out of reach of the texts used here.)
parse_u64(s) ==
    LET d == IF Len(s) > 0 /\ s[1] = 43 THEN Tail(s) ELSE s
    IN  IF Len(d) = 0 \/ \E i \in 1..Len(d) : ~IsDigit(d[i]) THEN None
        ELSE Some(DigitsValue(d))

\* format!("{}", n) for an unsigned integer: its decimal text.
RECURSIVE format_uint(_)
format_uint(n) ==
    IF n < 10 THEN <<48 + n>>
    ELSE Append(format_uint(n \div 10), 48 + (n % 10))

\* ------------------------------------------------------------ HashMap

EmptyMap == [k \in {} |-> <<>>]
MapInsert(m, k, v) == [x \in (DOMAIN m) \cup {k} |-> IF x = k THEN v ELSE m[x]]
MapRemove(m, k) == [x \in (DOMAIN m) \ {k} |-> m[x]]
\* HashMap::get / the value returned by HashMap::insert and HashMap::remove
MapGet(m, k) == IF k \in DOMAIN m THEN Some(m[k]) ELSE None

\* ------------------------------------------------------------ header keys

\* WarcHeader: the keys promoted to typed fields, and one that is not.
ContentLength == "ContentLength"
WarcType == "WarcType"
RecordID == "RecordID"
Date == "Date"
Truncated == "Truncated"
TargetURI == "TargetURI"

\* ------------------------------------------------- RecordType, TruncatedType

\* RecordType: a closed vocabulary with a fallback variant carrying the text.
RecordTypeNames ==
    [Resource |-> T_resource, Request |-> T_request,
     Revisit |-> T_revisit, WarcInfo |-> T_warcinfo]

RecordType_Resource == [tag |-> "Resource", text |-> <<>>]

RecordType_from(s) ==
    IF \E t \in DOMAIN RecordTypeNames : RecordTypeNames[t] = s
    THEN [tag |-> CHOOSE t \in DOMAIN RecordTypeNames : RecordTypeNames[t] = s,
          text |-> <<>>]
    ELSE [tag |-> "Unknown", text |-> s]

RecordType_to_string(t) ==
    IF t.tag = "Unknown" THEN t.text ELSE RecordTypeNames[t.tag]

\* TruncatedType: likewise.
TruncatedTypeNames == [Length |-> T_length, Disconnect |-> T_disconnect]

TruncatedType_from(s) ==
    IF \E t \in DOMAIN TruncatedTypeNames : TruncatedTypeNames[t] = s
    THEN [tag |-> CHOOSE t \in DOMAIN TruncatedTypeNames : TruncatedTypeNames[t] = s,
          text |-> <<>>]
    ELSE [tag |-> "Unknown", text |-> s]

TruncatedType_to_string(t) ==
    IF t.tag = "Unknown" THEN t.text ELSE TruncatedTypeNames[t.tag]

\* ------------------------------------------------------------ chrono

\* A DateTime<Utc>: its civil time in UTC to the second (as the text
\* YYYY-MM-DDThh:mm:ss) and the nanoseconds within that second.
DateTime(civil, nanos) == [civil |-> civil, nanos |-> nanos]

\* DateTime::parse_from_rfc3339 followed by the conversion to UTC, on the
\* texts used here: the RFC 3339 texts and the instant each denotes.  Any
\* other text used here is not RFC 3339.
Rfc3339Table ==
    { <<T_date_a, DateTime(T_civil_a, 0)>>,
      <<T_date_b, DateTime(T_civil_b, 0)>>,
      <<T_date_b_offset, DateTime(T_civil_b, 0)>>,
      <<Append(T_civil_now, 90), DateTime(T_civil_now, 0)>> }

parse_from_rfc3339(s) ==
    IF \E e \in Rfc3339Table : e[1] = s
    THEN Some((CHOOSE e \in Rfc3339Table : e[1] = s)[2])
    ELSE None

\* DateTime::to_rfc3339_opts(SecondsFormat::Secs, true): whole seconds, "Z".
to_rfc3339_opts_secs_z(d) == Append(d.civil, 90)

\* ------------------------------------------------------------ WarcError

MissingHeader(h) == [kind |-> "MissingHeader", header |-> h, msg |-> ""]
MalformedHeader(h, m) == [kind |-> "MalformedHeader", header |-> h, msg |-> m]

\* A Result: ok with a value, or an error.
Ok(v) == [ok |-> TRUE, val |-> <<v>>, err |-> <<>>]
Err(e) == [ok |-> FALSE, val |-> <<>>, err |-> <<e>>]

\* ------------------------------------------------------------ Record

\* RawRecord { headers: RawHeaderBlock { version, headers }, body }
RawRecord(version, headers, body) ==
    [version |-> version, headers |-> headers, body |-> body]

\* Record<BufferedBody>; headers is the RawHeaderBlock's map and version its
\* version string.
Record(version, headers, record_date, record_id, record_type, truncated_type, body) ==
    [version |-> version, headers |-> headers, record_date |-> record_date,
     record_id |-> record_id, record_type |-> record_type,
     truncated_type |-> truncated_type, body |-> body]

\* Default for Record<BufferedBody>, given Utc::now() and the generated id.
Record_default(now, id) ==
    Record(T_warc10, EmptyMap, now, id, RecordType_Resource, None, <<>>)

\* Record::generate_record_id: "<" urn of a fresh UUID ">".
generate_record_id(uuid_urn) == <<60>> \o uuid_urn \o <<62>>

parse_content_length(len) ==
    LET n == parse_u64(len)
    IN  IF IsSome(n) THEN Ok(Unwrap(n))
        ELSE Err(MalformedHeader(ContentLength, "not an integer between 0 and 2^64-1"))

parse_record_date(date) ==
    LET d == parse_from_rfc3339(date)
    IN  IF IsSome(d) THEN Ok(Unwrap(d))
        ELSE Err(MalformedHeader(Date, "not an ISO 8601 datestamp"))

content_length(r) == Len(r.body)

warc_version(r) == r.version
set_warc_version(r, id) == [r EXCEPT !.version = id]
warc_id(r) == r.record_id
set_warc_id(r, id) == [r EXCEPT !.record_id = id]
warc_type(r) == r.record_type
set_warc_type(r, type_) == [r EXCEPT !.record_type = type_]
date(r) == r.record_date
set_date(r, d) == [r EXCEPT !.record_date = d]
truncated_type(r) == r.truncated_type
set_truncated_type(r, t) == [r EXCEPT !.truncated_type = Some(t)]
clear_truncated_type(r) == [r EXCEPT !.truncated_type = None]

body(r) == r.body
\* body_mut hands out a slice: the caller overwrites bytes, never the length.
body_mut(r, bytes) == [r EXCEPT !.body = bytes]
replace_body(r, new_body) == [r EXCEPT !.body = new_body]

\* An into_raw_parts that leaves the content-length header to the map.
into_raw_parts_NoContentLength(r) ==
    LET h1 == r.headers
        insert2 == MapGet(h1, WarcType)
        h2 == MapInsert(h1, WarcType, RecordType_to_string(r.record_type))
        insert3 == MapGet(h2, RecordID)
        h3 == MapInsert(h2, RecordID, r.record_id)
        insert4 == IF IsSome(r.truncated_type) THEN MapGet(h3, Truncated) ELSE None
        h4 == IF IsSome(r.truncated_type)
              THEN MapInsert(h3, Truncated,
                             TruncatedType_to_string(Unwrap(r.truncated_type)))
              ELSE h3
        insert5 == MapGet(h4, Date)
        h5 == MapInsert(h4, Date, to_rfc3339_opts_secs_z(r.record_date))
    IN  [version |-> r.version, headers |-> h5, body |-> r.body,
         assert_ok |-> insert2 = None /\ insert3 = None
                       /\ insert4 = None /\ insert5 = None]

\* Record::into_raw_parts.  assert_ok is the condition of its debug_assert!.
into_raw_parts(r) ==
    LET h0 == r.headers
        insert1 == MapGet(h0, ContentLength)
        h1 == MapInsert(h0, ContentLength, format_uint(Len(r.body)))
        insert2 == MapGet(h1, WarcType)
        h2 == MapInsert(h1, WarcType, RecordType_to_string(r.record_type))
        insert3 == MapGet(h2, RecordID)
        h3 == MapInsert(h2, RecordID, r.record_id)
        insert4 == IF IsSome(r.truncated_type) THEN MapGet(h3, Truncated) ELSE None
        h4 == IF IsSome(r.truncated_type)
              THEN MapInsert(h3, Truncated,
                             TruncatedType_to_string(Unwrap(r.truncated_type)))
              ELSE h3
        insert5 == MapGet(h4, Date)
        h5 == MapInsert(h4, Date, to_rfc3339_opts_secs_z(r.record_date))
    IN  [version |-> r.version, headers |-> h5, body |-> r.body,
         assert_ok |-> insert1 = None /\ insert2 = None /\ insert3 = None
                       /\ insert4 = None /\ insert5 = None]

\* Record::header.  panic: the unwrap of String::from_utf8 failed.
header(r, k) ==
    CASE k = ContentLength ->
            [panic |-> FALSE, val |-> Some(format_uint(content_length(r)))]
      [] k = RecordID -> [panic |-> FALSE, val |-> Some(warc_id(r))]
      [] k = WarcType ->
            [panic |-> FALSE, val |-> Some(RecordType_to_string(r.record_type))]
      [] k = Date ->
            [panic |-> FALSE, val |-> Some(to_rfc3339_opts_secs_z(date(r)))]
      [] OTHER ->
            LET h == MapGet(r.headers, k)
            IN  IF IsSome(h) /\ ~from_utf8_ok(Unwrap(h))
                THEN [panic |-> TRUE, val |-> None]
                ELSE [panic |-> FALSE, val |-> h]

\* What set_header leaves and returns: the record after the call, the
\* Result (ok, the Option returned, the error) and whether it panicked.
SetHeaderOk(r, ret) == [rec |-> r, ok |-> TRUE, ret |-> ret, err |-> None, panic |-> FALSE]
SetHeaderErr(r, e) == [rec |-> r, ok |-> FALSE, ret |-> None, err |-> Some(e), panic |-> FALSE]

\* A Date arm that takes the old date out, leaving a placeholder, before it
\* parses the new one.
set_header_date_TakesFirst(r, value) ==
    LET d == parse_record_date(value)
    IN  IF ~d.ok
        THEN SetHeaderErr([r EXCEPT !.record_date = DateTime(T_civil_b, 0)],
                          Unwrap(d.err))
        ELSE SetHeaderOk([r EXCEPT !.record_date = Unwrap(d.val)],
                         Some(to_rfc3339_opts_secs_z(r.record_date)))

\* set_header, the Date arm: the value is parsed before the field is replaced.
set_header_date(r, value) ==
    LET d == parse_record_date(value)
    IN  IF ~d.ok THEN SetHeaderErr(r, Unwrap(d.err))
        ELSE SetHeaderOk([r EXCEPT !.record_date = Unwrap(d.val)],
                         Some(to_rfc3339_opts_secs_z(r.record_date)))

\* set_header, the RecordID arm.
set_header_record_id(r, value) ==
    SetHeaderOk([r EXCEPT !.record_id = value], Some(r.record_id))

\* A WarcType arm that reports the prior type and leaves the field as it was.
set_header_warc_type_Ignored(r, value) ==
    SetHeaderOk(r, Some(RecordType_to_string(r.record_type)))

\* set_header, the WarcType arm.
set_header_warc_type(r, value) ==
    SetHeaderOk([r EXCEPT !.record_type = RecordType_from(value)],
                Some(RecordType_to_string(r.record_type)))

\* set_header, the Truncated arm.
set_header_truncated(r, value) ==
    SetHeaderOk([r EXCEPT !.truncated_type = Some(TruncatedType_from(value))],
                IF IsSome(r.truncated_type)
                THEN Some(TruncatedType_to_string(Unwrap(r.truncated_type)))
                ELSE None)

\* A set_header that takes any integer as the content length.
set_header_content_length_AnyInteger(r, value) ==
    LET n == parse_content_length(value)
    IN  IF ~n.ok THEN SetHeaderErr(r, Unwrap(n.err))
        ELSE SetHeaderOk(r, Some(value))

\* set_header, the ContentLength arm.
set_header_content_length(r, value) ==
    LET n == parse_content_length(value)
    IN  IF ~n.ok THEN SetHeaderErr(r, Unwrap(n.err))
        ELSE IF Unwrap(n.val) # content_length(r)
        THEN SetHeaderErr(r, MalformedHeader(ContentLength,
                                             "content length != body size"))
        ELSE SetHeaderOk(r, Some(value))

\* set_header, the arm of every other key: the value goes into the map and
\* the value it replaces is decoded with unwrap.
set_header_other(r, k, value) ==
    LET old == MapGet(r.headers, k)
        r2 == [r EXCEPT !.headers = MapInsert(r.headers, k, value)]
    IN  IF IsSome(old) /\ ~from_utf8_ok(Unwrap(old))
        THEN [rec |-> r2, ok |-> FALSE, ret |-> None, err |-> None,
              panic |-> TRUE]
        ELSE SetHeaderOk(r2, old)

\* Record::set_header, value a String.
set_header(r, k, value) ==
    CASE k = Date -> set_header_date(r, value)
      [] k = RecordID -> set_header_record_id(r, value)
      [] k = WarcType -> set_header_warc_type(r, value)
      [] k = Truncated -> set_header_truncated(r, value)
      [] k = ContentLength -> set_header_content_length(r, value)
      [] OTHER -> set_header_other(r, k, value)

\* ------------------------------------------------- TryFrom<RawRecord>

\* A content-length step that takes any integer, whatever the body's length.
try_from_content_length_AnyInteger(r) ==
    LET removed == MapGet(r.headers, ContentLength)
    IN  IF removed = None THEN Err(MissingHeader(ContentLength))
        ELSE IF ~from_utf8_ok(Unwrap(removed))
        THEN Err(MalformedHeader(Date, "not a UTF-8 string"))
        ELSE LET len == parse_content_length(Unwrap(removed))
             IN  IF ~len.ok THEN len ELSE Ok(TRUE)

\* The content-length step: remove the header, decode it, parse it, compare
\* it with the body's length.
try_from_content_length(r) ==
    LET removed == MapGet(r.headers, ContentLength)
    IN  IF removed = None THEN Err(MissingHeader(ContentLength))
        ELSE IF ~from_utf8_ok(Unwrap(removed))
        THEN Err(MalformedHeader(Date, "not a UTF-8 string"))
        ELSE LET len == parse_content_length(Unwrap(removed))
             IN  IF ~len.ok THEN len
                 ELSE IF Unwrap(len.val) = Len(r.body) THEN Ok(TRUE)
                 ELSE Err(MalformedHeader(ContentLength,
                                          "content length != body length"))

\* A record-type step that names the wrong header when it is missing.
try_from_record_type_WrongName(r) ==
    LET removed == MapGet(r.headers, WarcType)
    IN  IF removed = None THEN Err(MissingHeader(RecordID))
        ELSE IF ~from_utf8_ok(Unwrap(removed))
        THEN Err(MalformedHeader(WarcType, "not a UTF-8 string"))
        ELSE Ok(RecordType_from(Unwrap(removed)))

\* The record-type step.
try_from_record_type(r) ==
    LET removed == MapGet(r.headers, WarcType)
    IN  IF removed = None THEN Err(MissingHeader(WarcType))
        ELSE IF ~from_utf8_ok(Unwrap(removed))
        THEN Err(MalformedHeader(WarcType, "not a UTF-8 string"))
        ELSE Ok(RecordType_from(Unwrap(removed)))

\* The record-id step.
try_from_record_id(r) ==
    LET removed == MapGet(r.headers, RecordID)
    IN  IF removed = None THEN Err(MissingHeader(RecordID))
        ELSE IF ~from_utf8_ok(Unwrap(removed))
        THEN Err(MalformedHeader(Date, "not a UTF-8 string"))
        ELSE Ok(Unwrap(removed))

\* The date step.
try_from_record_date(r) ==
    LET removed == MapGet(r.headers, Date)
    IN  IF removed = None THEN Err(MissingHeader(Date))
        ELSE IF ~from_utf8_ok(Unwrap(removed))
        THEN Err(MalformedHeader(Date, "not a UTF-8 string"))
        ELSE parse_record_date(Unwrap(removed))

\* A try_from that checks the record type before the content length.
try_from_TypeFirst(r, now, id) ==
    LET c2 == try_from_record_type(r)
        r1 == [r EXCEPT !.headers = MapRemove(r.headers, WarcType)]
        c1 == try_from_content_length(r1)
        r2 == [r1 EXCEPT !.headers = MapRemove(r1.headers, ContentLength)]
        c3 == try_from_record_id(r2)
        r3 == [r2 EXCEPT !.headers = MapRemove(r2.headers, RecordID)]
        c4 == try_from_record_date(r3)
        r4 == [r3 EXCEPT !.headers = MapRemove(r3.headers, Date)]
    IN  IF ~c2.ok THEN Err(Unwrap(c2.err))
        ELSE IF ~c1.ok THEN Err(Unwrap(c1.err))
        ELSE IF ~c3.ok THEN Err(Unwrap(c3.err))
        ELSE IF ~c4.ok THEN Err(Unwrap(c4.err))
        ELSE Ok(Record(r4.version, r4.headers, Unwrap(c4.val), Unwrap(c3.val),
                       Unwrap(c2.val), Record_default(now, id).truncated_type,
                       r4.body))

\* A try_from that reads the date and leaves its header in the map.
try_from_KeepsDate(r, now, id) ==
    LET c1 == try_from_content_length(r)
        r1 == [r EXCEPT !.headers = MapRemove(r.headers, ContentLength)]
        c2 == try_from_record_type(r1)
        r2 == [r1 EXCEPT !.headers = MapRemove(r1.headers, WarcType)]
        c3 == try_from_record_id(r2)
        r3 == [r2 EXCEPT !.headers = MapRemove(r2.headers, RecordID)]
        c4 == try_from_record_date(r3)
    IN  IF ~c1.ok THEN Err(Unwrap(c1.err))
        ELSE IF ~c2.ok THEN Err(Unwrap(c2.err))
        ELSE IF ~c3.ok THEN Err(Unwrap(c3.err))
        ELSE IF ~c4.ok THEN Err(Unwrap(c4.err))
        ELSE Ok(Record(r3.version, r3.headers, Unwrap(c4.val), Unwrap(c3.val),
                       Unwrap(c2.val), Record_default(now, id).truncated_type,
                       r3.body))

\* Record::try_from(raw): each step works on the map the steps before it
\* left, and `?` returns the first error.  now and id are what
\* Default::default() draws for the fields `..Default::default()` fills.
try_from(r, now, id) ==
    LET c1 == try_from_content_length(r)
        r1 == [r EXCEPT !.headers = MapRemove(r.headers, ContentLength)]
        c2 == try_from_record_type(r1)
        r2 == [r1 EXCEPT !.headers = MapRemove(r1.headers, WarcType)]
        c3 == try_from_record_id(r2)
        r3 == [r2 EXCEPT !.headers = MapRemove(r2.headers, RecordID)]
        c4 == try_from_record_date(r3)
        r4 == [r3 EXCEPT !.headers = MapRemove(r3.headers, Date)]
    IN  IF ~c1.ok THEN Err(Unwrap(c1.err))
        ELSE IF ~c2.ok THEN Err(Unwrap(c2.err))
        ELSE IF ~c3.ok THEN Err(Unwrap(c3.err))
        ELSE IF ~c4.ok THEN Err(Unwrap(c4.err))
        ELSE Ok(Record(r4.version, r4.headers, Unwrap(c4.val), Unwrap(c3.val),
                       Unwrap(c2.val), Record_default(now, id).truncated_type,
                       r4.body))

\* ------------------------------------------------------------ inputs

\* "1.0": the version text a parsed record carries
T_ver10 == <<49, 46, 48>>

BodyBytes == {97, 98}
Bodies == UNION {[1..n -> BodyBytes] : n \in 0..MaxBody}

LengthTexts == {format_uint(n) : n \in 0..MaxBody}

\* The Strings a caller passes to set_header, per key.
HeaderStrings(k) ==
    CASE k = ContentLength -> LengthTexts \cup {T_plus1, T_01, T_R2D2}
      [] k = WarcType -> {T_request, T_dunno}
      [] k = RecordID -> {T_id_test}
      [] k = Date -> {T_date_a, T_date_b_offset, T_yesterday}
      [] k = Truncated -> {T_length, T_foreign}
      [] k = TargetURI -> {T_uri_a, T_uri_b}

\* The bytes a caller stores in a RawRecord's map, per key.
RawValues(k) ==
    CASE k = ContentLength -> LengthTexts \cup {T_plus1, T_R2D2, T_bad_utf8}
      [] k = WarcType -> {T_request, T_dunno, T_bad_utf8}
      [] k = RecordID -> {T_id_test, T_bad_utf8}
      [] k = Date -> {T_date_a, T_yesterday, T_bad_utf8}
      [] k = Truncated -> {T_length, T_bad_utf8}
      [] k = TargetURI -> {T_uri_a, T_bad_utf8}

RawKeys == {ContentLength, WarcType, RecordID, Date, Truncated, TargetURI}
SetKeys == {ContentLength, WarcType, RecordID, Date, Truncated, TargetURI}

\* Utc::now() and the URN of Uuid::new_v4() at the time of a Default::default().
Nows == {DateTime(T_civil_now, 250000000)}
UuidUrns == {<<117, 114, 110, 58, 117, 117, 105, 100, 58, 48>>}

DateTimes == {DateTime(T_civil_a, 0), DateTime(T_civil_b, 0)}
RecordTypes == {RecordType_from(T_request), RecordType_from(T_dunno)}
TruncatedTypes == {TruncatedType_from(T_length)}
RecordIds == {T_id_test}
Versions == {T_ver11}

\* ------------------------------------------------------------ state machine

EmptyRaw == RawRecord(T_ver10, EmptyMap, <<>>)

NoOp ==
    [op |-> "none", key |-> "", val |-> <<>>, ok |-> TRUE, ret |-> None,
     err |-> None, panic |-> FALSE, raw |-> None, out |-> None]

Init ==
    /\ mode = "raw"
    /\ raw = EmptyRaw
    /\ rec = None
    /\ pre = None
    /\ last = NoOp
    /\ builder = None
    /\ bpre = None
    /\ failed = None
    /\ doc = None
    /\ input = <<>>
    /\ parsed = None

\* The caller stores a header in the RawRecord it is filling.
RawInsert(k, v) ==
    /\ mode = "raw"
    /\ raw' = [raw EXCEPT !.headers = MapInsert(raw.headers, k, v)]
    /\ UNCHANGED <<mode, rec, pre, last>>
    /\ UNCHANGED others

\* The caller sets the RawRecord's body.
RawSetBody(b) ==
    /\ mode = "raw"
    /\ raw' = [raw EXCEPT !.body = b]
    /\ UNCHANGED <<mode, rec, pre, last>>
    /\ UNCHANGED others

\* Record::new()
RecordNew(now, urn) ==
    /\ mode = "raw"
    /\ raw = EmptyRaw
    /\ mode' = "typed"
    /\ rec' = Some(Record_default(now, generate_record_id(urn)))
    /\ pre' = None
    /\ last' = [NoOp EXCEPT !.op = "new"]
    /\ UNCHANGED raw
    /\ UNCHANGED others

\* Record::try_from(raw): the RawRecord is consumed; the caller holds the
\* typed record, or the error and no record.
TryFrom(now, urn) ==
    /\ mode = "raw"
    /\ LET res == try_from(raw, now, generate_record_id(urn))
       IN  /\ mode' = IF res.ok THEN "typed" ELSE "failed"
           /\ rec' = res.val
           /\ last' = [NoOp EXCEPT !.op = "try_from", !.ok = res.ok,
                                   !.err = res.err, !.raw = Some(raw)]
    /\ pre' = None
    /\ raw' = EmptyRaw
    /\ UNCHANGED others

\* The caller holds a typed record and no result of an earlier call.
Idle == mode = "typed" /\ last = NoOp

\* The caller has looked at what the last call returned and lets go of it.
DropResult ==
    /\ mode = "typed"
    /\ last # NoOp
    /\ last' = NoOp
    /\ pre' = None
    /\ UNCHANGED <<mode, raw, rec>>
    /\ UNCHANGED others

\* A call on the typed record that leaves record r and reports l.
TypedStep(r, l) ==
    /\ mode' = IF l.panic THEN "panicked" ELSE "typed"
    /\ pre' = rec
    /\ rec' = Some(r)
    /\ last' = l
    /\ UNCHANGED raw
    /\ UNCHANGED others

SetHeader(k, v) ==
    /\ Idle
    /\ LET res == set_header(Unwrap(rec), k, v)
       IN  TypedStep(res.rec,
                     [NoOp EXCEPT !.op = "set_header", !.key = k, !.val = v,
                                  !.ok = res.ok, !.ret = res.ret, !.err = res.err,
                                  !.panic = res.panic])

Header(k) ==
    /\ Idle
    /\ LET res == header(Unwrap(rec), k)
       IN  TypedStep(Unwrap(rec),
                     [NoOp EXCEPT !.op = "header", !.key = k, !.ret = res.val,
                                  !.panic = res.panic])

ReplaceBody(b) ==
    /\ Idle
    /\ TypedStep(replace_body(Unwrap(rec), b),
                 [NoOp EXCEPT !.op = "replace_body", !.val = b])

\* body_mut(): the caller overwrites the slice with bytes of the same length.
BodyMut(b) ==
    /\ Idle
    /\ Len(b) = Len(Unwrap(rec).body)
    /\ TypedStep(body_mut(Unwrap(rec), b),
                 [NoOp EXCEPT !.op = "body_mut", !.val = b])

SetWarcId(id) ==
    /\ Idle
    /\ TypedStep(set_warc_id(Unwrap(rec), id),
                 [NoOp EXCEPT !.op = "set_warc_id", !.val = id])

SetWarcType(t) ==
    /\ Idle
    /\ TypedStep(set_warc_type(Unwrap(rec), t),
                 [NoOp EXCEPT !.op = "set_warc_type",
                              !.val = RecordType_to_string(t)])

SetDate(d) ==
    /\ Idle
    /\ TypedStep(set_date(Unwrap(rec), d),
                 [NoOp EXCEPT !.op = "set_date",
                              !.val = to_rfc3339_opts_secs_z(d)])

SetTruncatedType(t) ==
    /\ Idle
    /\ TypedStep(set_truncated_type(Unwrap(rec), t),
                 [NoOp EXCEPT !.op = "set_truncated_type",
                              !.val = TruncatedType_to_string(t)])

SetWarcVersion(v) ==
    /\ Idle
    /\ TypedStep(set_warc_version(Unwrap(rec), v),
                 [NoOp EXCEPT !.op = "set_warc_version", !.val = v])

ClearTruncatedType ==
    /\ Idle
    /\ TypedStep(clear_truncated_type(Unwrap(rec)),
                 [NoOp EXCEPT !.op = "clear_truncated_type"])

\* record.clone().into_raw_parts(), in a build with debug assertions.
IntoRawParts ==
    /\ Idle
    /\ LET parts == into_raw_parts(Unwrap(rec))
       IN  TypedStep(Unwrap(rec),
                     [NoOp EXCEPT !.op = "into_raw_parts",
                                  !.out = Some(RawRecord(parts.version, parts.headers,
                                                         parts.body)),
                                  !.panic = ~parts.assert_ok])

Next ==
    \/ \E k \in RawKeys : \E v \in RawValues(k) : RawInsert(k, v)
    \/ \E b \in Bodies : RawSetBody(b)
    \/ \E now \in Nows, urn \in UuidUrns : RecordNew(now, urn)
    \/ \E now \in Nows, urn \in UuidUrns : TryFrom(now, urn)
    \/ \E k \in SetKeys : \E v \in HeaderStrings(k) : SetHeader(k, v)
    \/ \E k \in SetKeys : Header(k)
    \/ \E b \in Bodies : ReplaceBody(b)
    \/ \E b \in Bodies : BodyMut(b)
    \/ \E id \in RecordIds : SetWarcId(id)
    \/ \E t \in RecordTypes : SetWarcType(t)
    \/ \E d \in DateTimes : SetDate(d)
    \/ \E t \in TruncatedTypes : SetTruncatedType(t)
    \/ \E v \in Versions : SetWarcVersion(v)
    \/ ClearTruncatedType
    \/ IntoRawParts
    \/ DropResult

Spec == Init /\ [][Next]_vars

\* ------------------------------------------------------------ claims

\* The record the caller holds, and the one it held before the last call.
Rec == Unwrap(rec)
Pre == Unwrap(pre)

\* t is the decimal text of n: digits only, no sign, no leading zero.
IsDecimalTextOf(t, n) ==
    /\ Len(t) > 0
    /\ \A i \in 1..Len(t) : IsDigit(t[i])
    /\ (Len(t) > 1 => t[1] # 48)
    /\ DigitsValue(t) = n

\* C1: in every typed record, whatever replace_body, body_mut and
\* set_header(ContentLength, v) calls came before, content_length() is the
\* body's length, and the content-length header that into_raw_parts emits
\* (and header(ContentLength) renders) is the decimal text of that length.
C1_ContentLengthIsBodyLength ==
    mode = "typed" =>
        /\ content_length(Rec) = Len(body(Rec))
        /\ LET emitted == MapGet(into_raw_parts(Rec).headers, ContentLength)
           IN  IsSome(emitted) /\ IsDecimalTextOf(Unwrap(emitted), Len(Rec.body))
        /\ LET shown == header(Rec, ContentLength).val
           IN  IsSome(shown) /\ IsDecimalTextOf(Unwrap(shown), Len(Rec.body))
        /\ (last.op = "into_raw_parts" =>
                /\ IsDecimalTextOf(Unwrap(last.out).headers[ContentLength],
                                   Len(Rec.body))
                /\ Unwrap(last.out).body = Rec.body)

\* A failed set_header(ContentLength, v) on a record whose body was replaced
\* by a non-empty one.
C1_Witness ==
    /\ mode = "typed"
    /\ last.op = "set_header" /\ last.key = ContentLength /\ ~last.ok
    /\ Len(Rec.body) = MaxBody

\* C2: set_header(ContentLength, v) succeeds exactly when v parses as an
\* integer equal to the body's length, returns an error otherwise, and leaves
\* the body as it was in both outcomes.
C2_SetContentLength ==
    (mode = "typed" /\ last.op = "set_header" /\ last.key = ContentLength) =>
        /\ last.ok <=> parse_u64(last.val) = Some(Len(Pre.body))
        /\ ~last.ok <=> IsSome(last.err)
        /\ Rec.body = Pre.body

\* set_header(ContentLength, v) refused for an integer that is not the length
\* of the (non-empty) body.
C2_Witness ==
    /\ mode = "typed"
    /\ last.op = "set_header" /\ last.key = ContentLength /\ ~last.ok
    /\ IsSome(parse_u64(last.val))
    /\ Len(Rec.body) > 0

\* The keys Record keeps as typed fields.
PromotedKeys == {ContentLength, WarcType, RecordID, Date, Truncated}

\* C3: the residual header map of a typed record holds none of the keys
\* promoted to typed fields, and so the debug assertion of into_raw_parts
\* holds.
C3_NoPromotedKeyInResidualMap ==
    mode = "typed" =>
        /\ (DOMAIN Rec.headers) \cap PromotedKeys = {}
        /\ into_raw_parts(Rec).assert_ok

\* The RawRecord given to the try_from that was the last call.
Given == Unwrap(last.raw)

\* What each check of try_from asks of a raw record, stated on the record.
ContentLengthFails(r) ==
    ~ (/\ ContentLength \in DOMAIN r.headers
       /\ from_utf8_ok(r.headers[ContentLength])
       /\ parse_u64(r.headers[ContentLength]) = Some(Len(r.body)))
RecordTypeFails(r) ==
    ~ (WarcType \in DOMAIN r.headers /\ from_utf8_ok(r.headers[WarcType]))
RecordIdFails(r) ==
    ~ (RecordID \in DOMAIN r.headers /\ from_utf8_ok(r.headers[RecordID]))
DateFails(r) ==
    ~ (/\ Date \in DOMAIN r.headers
       /\ from_utf8_ok(r.headers[Date])
       /\ IsSome(parse_from_rfc3339(r.headers[Date])))

\* The first required header, in the order content-length, record-type,
\* record-id, date, whose check fails; "" when none does.
FirstFailing(r) ==
    IF ContentLengthFails(r) THEN ContentLength
    ELSE IF RecordTypeFails(r) THEN WarcType
    ELSE IF RecordIdFails(r) THEN RecordID
    ELSE IF DateFails(r) THEN Date
    ELSE ""

\* The error the check of header k gives on r.
CheckError(k, r) ==
    CASE k = ContentLength -> try_from_content_length(r).err
      [] k = WarcType -> try_from_record_type(r).err
      [] k = RecordID -> try_from_record_id(r).err
      [] k = Date -> try_from_record_date(r).err

\* C4: try_from checks content-length, record-type, record-id, date in that
\* order and returns the failure of the first check that fails, and only
\* that one; it succeeds when none fails.
C4_FirstFailureInOrder ==
    last.op = "try_from" =>
        /\ last.ok <=> FirstFailing(Given) = ""
        /\ ~last.ok => last.err = CheckError(FirstFailing(Given), Given)

\* A conversion refused on a raw record whose content-length and date both
\* fail their checks.
C4_Witness ==
    /\ last.op = "try_from" /\ ~last.ok
    /\ ContentLengthFails(Given) /\ DateFails(Given)
    /\ WarcType \in DOMAIN Given.headers

\* C5 as stated: a raw record without a Warc-Type header is refused with
\* "missing header: record-type" whatever the other required headers are.
C5_MissingTypeWhateverTheOthers ==
    (last.op = "try_from" /\ WarcType \notin DOMAIN Given.headers) =>
        /\ ~last.ok
        /\ last.err = Some(MissingHeader(WarcType))

\* C5, amended: a raw record without a Warc-Type header whose content-length
\* header passes its check is refused with "missing header: record-type",
\* whatever the record-id and date headers are.
C5_MissingTypeAfterContentLength ==
    (/\ last.op = "try_from"
     /\ WarcType \notin DOMAIN Given.headers
     /\ ~ContentLengthFails(Given)) =>
        /\ ~last.ok
        /\ last.err = Some(MissingHeader(WarcType))

\* A raw record with a good content-length, no Warc-Type, no record-id and a
\* date that is not RFC 3339, refused.
C5_Witness ==
    /\ last.op = "try_from" /\ ~last.ok
    /\ WarcType \notin DOMAIN Given.headers
    /\ ~ContentLengthFails(Given)
    /\ RecordIdFails(Given) /\ DateFails(Given)
    /\ Len(Given.body) > 0

\* C6: the error of a refused try_from names the header whose check failed:
\* missing when that header is absent, malformed when it is present.
C6_ErrorNamesFailingHeader ==
    (last.op = "try_from" /\ ~last.ok) =>
        LET k == FirstFailing(Given)
            e == Unwrap(last.err)
        IN  /\ e.header = k
            /\ e.kind = IF k \in DOMAIN Given.headers
                        THEN "MalformedHeader" ELSE "MissingHeader"

\* C7: a successful try_from moves a truncation-reason header out of the map
\* into the typed field; without that header the typed field is None.
C7_TruncatedPromoted ==
    (last.op = "try_from" /\ last.ok) =>
        /\ Truncated \notin DOMAIN Rec.headers
        /\ truncated_type(Rec) =
               IF Truncated \in DOMAIN Given.headers
               THEN Some(TruncatedType_from(Given.headers[Truncated]))
               ELSE None

\* The value of field k as header(k) renders it; the truncation reason, a
\* typed field, rendered from that field.
FieldText(r, k) ==
    IF k = Truncated
    THEN IF IsSome(truncated_type(r))
         THEN Some(TruncatedType_to_string(Unwrap(truncated_type(r))))
         ELSE None
    ELSE header(r, k).val

\* C8: a successful set_header(k, v) returns the value field k had before
\* the call; for content-length that is the prior content-length text.
C8_SetHeaderReturnsPrior ==
    (last.op = "set_header" /\ last.ok) =>
        last.ret = FieldText(Pre, last.key)

\* The text header(k) is to show after set_header(k, v): v itself, and for
\* the date the instant of v in UTC to the second.
ShownAfterSet(k, v) ==
    IF k = Date THEN to_rfc3339_opts_secs_z(Unwrap(parse_from_rfc3339(v))) ELSE v

\* C9: after a successful set_header(k, v), header(k) returns the value set.
C9_HeaderReturnsValueSet ==
    (mode = "typed" /\ last.op = "set_header" /\ last.ok) =>
        header(Rec, last.key).val = Some(ShownAfterSet(last.key, last.val))

\* C10: every value of the residual map is valid text, and neither header
\* nor set_header panics on decoding one.
C10_ResidualValuesAreText ==
    /\ mode = "typed" =>
           \A k \in DOMAIN Rec.headers : from_utf8_ok(Rec.headers[k])
    /\ ~ (last.op \in {"header", "set_header"} /\ last.panic)

\* The four headers try_from turns into typed fields.
RequiredKeys == {ContentLength, WarcType, RecordID, Date}

\* C24: after a successful try_from the content-length, record-type,
\* record-id and date headers are absent from the residual map and held as
\* typed fields, every other header of the raw record is in the residual map
\* with its bytes unchanged, and the body is the raw record's body.
C24_TryFromMovesFourHeaders ==
    (last.op = "try_from" /\ last.ok) =>
        /\ DOMAIN Rec.headers = (DOMAIN Given.headers) \ RequiredKeys
        /\ \A k \in DOMAIN Rec.headers : Rec.headers[k] = Given.headers[k]
        /\ Some(content_length(Rec)) = parse_u64(Given.headers[ContentLength])
        /\ warc_type(Rec) = RecordType_from(Given.headers[WarcType])
        /\ warc_id(Rec) = Given.headers[RecordID]
        /\ Some(date(Rec)) = parse_from_rfc3339(Given.headers[Date])
        /\ body(Rec) = Given.body

\* A raw record with a body of two bytes, a target URI that is no text and a
\* truncation reason was converted.
C24_Witness ==
    /\ last.op = "try_from" /\ last.ok
    /\ Len(Given.body) = 2
    /\ RequiredKeys \cup {TargetURI, Truncated} = DOMAIN Given.headers
    /\ Given.headers[TargetURI] = T_bad_utf8
    /\ DOMAIN Rec.headers = {TargetURI, Truncated}

\* C26: try_from accepts the content-length header only if it equals the
\* body's length, and tells three failures apart: the header is absent
\* (missing content-length), its text is no integer (malformed, not an
\* integer), the integer is not the body's length (malformed, mismatch).
C26_ContentLengthThreeFailures ==
    last.op = "try_from" =>
        LET h == Given.headers
            present == ContentLength \in DOMAIN h
            text == present /\ from_utf8_ok(h[ContentLength])
            n == parse_u64(h[ContentLength])
        IN  /\ last.ok => text /\ n = Some(Len(Given.body))
            /\ ~present => last.err = Some(MissingHeader(ContentLength))
            /\ text /\ n = None =>
                  /\ Unwrap(last.err).kind = "MalformedHeader"
                  /\ Unwrap(last.err).header = ContentLength
                  /\ last.err = parse_content_length(h[ContentLength]).err
            /\ text /\ n # None /\ n # Some(Len(Given.body)) =>
                  last.err = Some(MalformedHeader(ContentLength,
                                                  "content length != body length"))
            /\ text /\ n = None =>
                  last.err # Some(MalformedHeader(ContentLength,
                                                  "content length != body length"))

\* A raw record with a body of two bytes and the content length "1", refused.
C26_Witness ==
    /\ last.op = "try_from" /\ ~last.ok
    /\ Len(Given.body) = 2
    /\ ContentLength \in DOMAIN Given.headers
    /\ Given.headers[ContentLength] = format_uint(1)
    /\ Unwrap(last.err).header = ContentLength

\* C27: a set_header call that fails (a date that is not RFC 3339, a content
\* length that is no integer or not the body's length) leaves every field of
\* the typed record as it was: version, date, id, type, truncation reason,
\* residual headers and body.
C27_FailedSetHeaderLeavesRecord ==
    (mode = "typed" /\ last.op = "set_header" /\ ~last.ok) =>
        /\ last.key \in {Date, ContentLength}
        /\ date(Rec) = date(Pre)
        /\ warc_id(Rec) = warc_id(Pre)
        /\ warc_type(Rec) = warc_type(Pre)
        /\ truncated_type(Rec) = truncated_type(Pre)
        /\ Rec.headers = Pre.headers
        /\ body(Rec) = body(Pre)
        /\ warc_version(Rec) = warc_version(Pre)
        /\ header(Rec, Date) = header(Pre, Date)
        /\ header(Rec, ContentLength) = header(Pre, ContentLength)

\* set_header(Date, "yesterday") was refused on a record with a body, a
\* truncation reason and a residual header.
C27_Witness ==
    /\ mode = "typed" /\ last.op = "set_header" /\ ~last.ok
    /\ last.key = Date /\ last.val = T_yesterday
    /\ Len(Rec.body) > 0
    /\ IsSome(Rec.truncated_type)
    /\ TargetURI \in DOMAIN Rec.headers

\* ------------------------------------------------------ nom, streaming mode

\* "WARC/"
T_tag_warc == <<87, 65, 82, 67, 47>>
\* ":"
T_colon == <<58>>
\* "\n"
T_lf == <<10>>
\* "\r\n"
T_crlf == <<13, 10>>
\* "content-length"
T_content_length == <<99, 111, 110, 116, 101, 110, 116, 45, 108, 101, 110, 103, 116, 104>>

\* input.slice(..n) and input.slice(n..)
Take(s, n) == SubSeq(s, 1, n)
Drop(s, n) == SubSeq(s, n + 1, Len(s))

\* InputTakeAtPosition / Iterator::position: the first index of s whose byte
\* is one of S, or 0 when there is none.
Position(s, S) ==
    LET idx == {i \in 1..Len(s) : s[i] \in S}
    IN  IF idx = {} THEN 0 ELSE CHOOSE i \in idx : \A j \in idx : i <= j

\* IResult: Ok((rest, out)), Err(Err::Incomplete(_)), Err(Err::Error((at, code)))
IOk(rest, out) == [kind |-> "Ok", rest |-> rest, out |-> out, code |-> ""]
IIncomplete == [kind |-> "Incomplete", rest |-> <<>>, out |-> <<>>, code |-> ""]
IError(at, code) == [kind |-> "Error", rest |-> at, out |-> <<>>, code |-> code]

\* Compare::compare: the bytes the input and t both have agree (then Ok when
\* the input holds all of t, Incomplete when it is shorter), or they differ.
compare(in, t) ==
    LET m == IF Len(in) < Len(t) THEN Len(in) ELSE Len(t)
    IN  IF \E i \in 1..m : in[i] # t[i] THEN "Error"
        ELSE IF Len(in) >= Len(t) THEN "Ok"
        ELSE "Incomplete"

\* bytes::streaming::tag
tag(t, in) ==
    CASE compare(in, t) = "Ok" -> IOk(Drop(in, Len(t)), Take(in, Len(t)))
      [] compare(in, t) = "Incomplete" -> IIncomplete
      [] OTHER -> IError(in, "Tag")

\* A take that ends the bytes taken at the first "\r" or "\n" among them.
take_UntilLineEnding(n, in) ==
    LET at == Position(Take(in, n), {13, 10})
    IN  IF Len(in) < n THEN IIncomplete
        ELSE IF at = 0 THEN IOk(Drop(in, n), Take(in, n))
        ELSE IOk(Drop(in, at - 1), Take(in, at - 1))

\* bytes::streaming::take
take(n, in) ==
    IF Len(in) < n THEN IIncomplete ELSE IOk(Drop(in, n), Take(in, n))

\* bytes::streaming::take_while1: the longest non-empty run of bytes that
\* are in S; the run has to be ended by a byte of the input.
take_while1(S, in) ==
    LET at == Position(in, (0..255) \ S)
    IN  IF at = 0 THEN IIncomplete
        ELSE IF at = 1 THEN IError(in, "TakeWhile1")
        ELSE IOk(Drop(in, at - 1), Take(in, at - 1))

\* character::streaming::space0: the run of spaces and tabs, ended by a byte
\* of the input.
space0(in) ==
    LET at == Position(in, (0..255) \ {32, 9})
    IN  IF at = 0 THEN IIncomplete
        ELSE IOk(Drop(in, at - 1), Take(in, at - 1))

\* The line_ending of complete mode: an input that ends early is an error.
line_ending_Complete(in) ==
    CASE compare(in, T_lf) = "Ok" -> IOk(Drop(in, 1), Take(in, 1))
      [] compare(in, T_crlf) = "Ok" -> IOk(Drop(in, 2), Take(in, 2))
      [] OTHER -> IError(in, "CrLf")

\* A line_ending that takes a lone "\r" at the end of the input for an error.
line_ending_LoneCrIsError(in) ==
    CASE compare(in, T_lf) = "Ok" -> IOk(Drop(in, 1), Take(in, 1))
      [] compare(in, T_lf) = "Incomplete" -> IIncomplete
      [] OTHER ->
            CASE compare(in, T_crlf) = "Ok" -> IOk(Drop(in, 2), Take(in, 2))
              [] OTHER -> IError(in, "CrLf")

\* character::streaming::line_ending: "\n" or "\r\n"
line_ending(in) ==
    CASE compare(in, T_lf) = "Ok" -> IOk(Drop(in, 1), Take(in, 1))
      [] compare(in, T_lf) = "Incomplete" -> IIncomplete
      [] OTHER ->
            CASE compare(in, T_crlf) = "Ok" -> IOk(Drop(in, 2), Take(in, 2))
              [] compare(in, T_crlf) = "Incomplete" -> IIncomplete
              [] OTHER -> IError(in, "CrLf")

\* character::streaming::not_line_ending: the bytes before the first "\r" or
\* "\n"; a "\r" has to begin "\r\n".
not_line_ending(in) ==
    LET at == Position(in, {13, 10})
    IN  IF at = 0 THEN IIncomplete
        ELSE IF in[at] = 13
        THEN CASE compare(Drop(in, at - 1), T_crlf) = "Ok" ->
                      IOk(Drop(in, at - 1), Take(in, at - 1))
               [] compare(Drop(in, at - 1), T_crlf) = "Incomplete" -> IIncomplete
               [] OTHER -> IError(in, "Tag")
        ELSE IOk(Drop(in, at - 1), Take(in, at - 1))

\* ------------------------------------------------------------ parser.rs

\* fn version: delimited(tag("WARC/"), not_line_ending, line_ending)
parser_version(in) ==
    LET a == tag(T_tag_warc, in)
        b == not_line_ending(a.rest)
        c == line_ending(b.rest)
    IN  IF a.kind # "Ok" THEN a
        ELSE IF b.kind # "Ok" THEN b
        ELSE IF c.kind # "Ok" THEN c
        ELSE IOk(c.rest, b.out)

is_header_token_char(chr) ==
    ~(\/ chr <= 31
      \/ chr >= 128
      \/ chr \in {40, 41, 60, 62, 64, 44, 59, 58, 34, 47, 91, 93, 63, 61, 123, 125,
                  32, 92})

\* fn header: token, spaces, ":", spaces, value, line ending
parser_header(in) ==
    LET token == take_while1({chr \in 0..255 : is_header_token_char(chr)}, in)
        delim_left == space0(token.rest)
        colon == tag(T_colon, delim_left.rest)
        delim_right == space0(colon.rest)
        value == not_line_ending(delim_right.rest)
        eol == line_ending(value.rest)
    IN  IF token.kind # "Ok" THEN token
        ELSE IF delim_left.kind # "Ok" THEN delim_left
        ELSE IF colon.kind # "Ok" THEN colon
        ELSE IF delim_right.kind # "Ok" THEN delim_right
        ELSE IF value.kind # "Ok" THEN value
        ELSE IF eol.kind # "Ok" THEN eol
        ELSE IOk(eol.rest, [key |-> token.out, value |-> value.out,
                            delim_left |-> delim_left.out,
                            delim_right |-> delim_right.out])

\* A many1(header) that keeps only the last line of a repeated key.
RECURSIVE many1_header_loop_LastWins(_, _)
many1_header_loop_LastWins(in, acc) ==
    LET h == parser_header(in)
        OtherKey(x) == x.key # h.out.key
    IN  IF h.kind = "Error" THEN IOk(in, acc)
        ELSE IF h.kind = "Incomplete" THEN h
        ELSE many1_header_loop_LastWins(h.rest, Append(SelectSeq(acc, OtherKey), h.out))

\* multi::many1(header): a first header, then headers until one fails with an
\* error; an Incomplete ends the whole parse.
RECURSIVE many1_header_loop(_, _)
many1_header_loop(in, acc) ==
    LET h == parser_header(in)
    IN  IF h.kind = "Error" THEN IOk(in, acc)
        ELSE IF h.kind = "Incomplete" THEN h
        ELSE IF h.rest = in THEN IError(in, "Many1")
        ELSE many1_header_loop(h.rest, Append(acc, h.out))

many1_header(in) ==
    LET h == parser_header(in)
    IN  IF h.kind # "Ok" THEN h
        ELSE many1_header_loop(h.rest, <<h.out>>)

\* str::to_lowercase of a text of ASCII letters, digits and punctuation
to_lowercase(s) == [i \in 1..Len(s) |-> IF s[i] >= 65 /\ s[i] <= 90 THEN s[i] + 32 ELSE s[i]]

\* A parse that reads every text that is no number as 0.
parse_usize_Lenient(s) == IF parse_u64(s) = None THEN Some(0) ELSE parse_u64(s)

\* str::parse::<usize>
parse_usize(s) == parse_u64(s)

\* A loop of fn headers in which a later content-length line replaces the
\* length found before.
RECURSIVE headers_loop_LastWins(_, _, _)
headers_loop_LastWins(hs, i, length) ==
    IF i > Len(hs) THEN Some(length)
    ELSE IF ~from_utf8_ok(hs[i].key) THEN None
    ELSE IF to_lowercase(hs[i].key) = T_content_length
    THEN IF ~from_utf8_ok(hs[i].value) THEN None
         ELSE IF parse_usize(hs[i].value) = None THEN None
         ELSE headers_loop_LastWins(hs, i + 1, parse_usize(hs[i].value))
    ELSE headers_loop_LastWins(hs, i + 1, length)

\* The loop of fn headers over the parsed lines, from line i on:
\* Some(content_length), or None for the Verify error.
RECURSIVE headers_loop(_, _, _)
headers_loop(hs, i, length) ==
    IF i > Len(hs) THEN Some(length)
    ELSE IF ~from_utf8_ok(hs[i].key) THEN None
    ELSE IF length = None /\ to_lowercase(hs[i].key) = T_content_length
    THEN IF ~from_utf8_ok(hs[i].value) THEN None
         ELSE IF parse_usize(hs[i].value) = None THEN None
         ELSE headers_loop(hs, i + 1, parse_usize(hs[i].value))
    ELSE headers_loop(hs, i + 1, length)

\* fn headers, after many1(header): the loop over the parsed lines, then the
\* lines and the length that frames the body.
headers_verify(m) ==
    LET length == headers_loop(m.out, 1, None)
    IN  IF m.kind # "Ok" THEN m
        ELSE IF length = None THEN IError(m.rest, "Verify")
        ELSE IOk(m.rest, [headers |-> m.out,
                          content_length |-> IF Unwrap(length) = None THEN 0
                                             ELSE Unwrap(Unwrap(length))])

\* fn headers: the header lines and the length that frames the body
parser_headers(in) == headers_verify(many1_header(in))

\* WarcRecord { version, headers, body }
WarcRecord(version, headers, bytes) ==
    [version |-> version, headers |-> headers, body |-> bytes]

\* pub fn record, after the headers: the blank line, content_length bytes
\* of body and the two line endings that close the record.
record_body(v, hs) ==
    LET blank == line_ending(hs.rest)
        b == take(hs.out.content_length, blank.rest)
        eol1 == line_ending(b.rest)
        eol2 == line_ending(eol1.rest)
    IN  IF hs.kind # "Ok" THEN hs
        ELSE IF blank.kind # "Ok" THEN blank
        ELSE IF b.kind # "Ok" THEN b
        ELSE IF eol1.kind # "Ok" THEN eol1
        ELSE IF eol2.kind # "Ok" THEN eol2
        ELSE IOk(eol2.rest, WarcRecord(v.out, hs.out.headers, b.out))

\* pub fn record, after the version line: the headers of the record
record_headers(v) ==
    IF v.kind # "Ok" THEN v ELSE record_body(v, parser_headers(v.rest))

\* pub fn record
parser_record(in) == record_headers(parser_version(in))

\* ------------------------------------------------- the reader's byte source

\* The most header lines of a record the source holds.
MaxHeaders == 2

\* "Content-Length"
T_Content_Length == <<67, 111, 110, 116, 101, 110, 116, 45, 76, 101, 110, 103, 116, 104>>
\* "x"
T_x == <<120>>
\* "1"
T_1 == <<49>>
\* "5"
T_5 == <<53>>

\* One header line by its parts: key, spaces, ":", spaces, value, terminator.
HeaderLine(key, delim_left, delim_right, value, eol) ==
    [key |-> key, delim_left |-> delim_left, delim_right |-> delim_right,
     value |-> value, eol |-> eol]

\* The header lines the source's records are made of:
\*   "Content-Length: 1\r\n"   "content-length :5\n"   "content-length: R2D2\r\n"
\*   "x:\n"   "x: a\rb\n" (a carriage return inside the value)
\*   "x:\ty\r\n" (a value that begins with a tab)
HeaderLines ==
    { HeaderLine(T_Content_Length, <<>>, <<32>>, T_1, T_crlf),
      HeaderLine(T_content_length, <<32>>, <<>>, T_5, T_lf),
      HeaderLine(T_content_length, <<>>, <<32>>, T_R2D2, T_crlf),
      HeaderLine(T_x, <<>>, <<>>, <<>>, T_lf),
      HeaderLine(T_x, <<>>, <<32>>, <<97, 13, 98>>, T_lf),
      HeaderLine(T_x, <<>>, <<>>, <<9, 121>>, T_crlf) }

\* The bytes the source holds after the blank line that ends the headers:
\*   "\n\n"  "\r\n\r\n"  "a\n\n"  "a\r\n\nW"  "\n\n\n"  "a\nb\n"  "a\r\r\n"
\*   "WARC/\n\n"
Payloads ==
    { <<10, 10>>, <<13, 10, 13, 10>>, <<97, 10, 10>>, <<97, 13, 10, 10, 87>>,
      <<10, 10, 10>>, <<97, 10, 98, 10>>, <<97, 13, 13, 10>>,
      T_tag_warc \o <<10, 10>> }

Docs ==
    [version : {T_ver10}, eol : {T_lf, T_crlf},
     lines : UNION {[1..n -> HeaderLines] : n \in 1..MaxHeaders},
     payload : Payloads]

RECURSIVE Concat(_)
Concat(ss) == IF Len(ss) = 0 THEN <<>> ELSE Head(ss) \o Concat(Tail(ss))

LineText(l) == l.key \o l.delim_left \o T_colon \o l.delim_right \o l.value \o l.eol

\* The bytes of the source: version line, header lines, blank line, payload.
DocText(d) ==
    T_tag_warc \o d.version \o d.eol
    \o Concat([i \in 1..Len(d.lines) |-> LineText(d.lines[i])])
    \o d.eol \o d.payload

\* --------------------------------------------- the streaming reader (parser)

InitReader ==
    /\ mode = "stream"
    /\ doc \in {Some(d) : d \in Docs}
    /\ input = <<>>
    /\ parsed = None
    /\ raw = EmptyRaw
    /\ rec = None
    /\ pre = None
    /\ last = NoOp
    /\ builder = None
    /\ bpre = None
    /\ failed = None

\* The reader pulls one more byte from the source into its buffer and lets go
\* of what the last parse returned.
Feed ==
    /\ mode = "stream"
    /\ Len(input) < Len(DocText(Unwrap(doc)))
    /\ input' = Take(DocText(Unwrap(doc)), Len(input) + 1)
    /\ parsed' = None
    /\ UNCHANGED <<mode, raw, rec, pre, last, builder, bpre, failed, doc>>

\* The reader calls record() on its buffer.
ParseRecord ==
    /\ mode = "stream"
    /\ parsed = None
    /\ parsed' = Some(parser_record(input))
    /\ UNCHANGED <<mode, raw, rec, pre, last, builder, bpre, failed, doc, input>>

NextReader ==
    \/ Feed
    \/ ParseRecord

SpecReader == InitReader /\ [][NextReader]_vars

\* ------------------------------------------------ claims about the parser

Doc == Unwrap(doc)
Parsed == Unwrap(parsed)

\* The grammar's reading of the source, independent of the parser.
EqualsIgnoringCase(a, b) ==
    /\ Len(a) = Len(b)
    /\ \A i \in 1..Len(a) :
          \/ a[i] = b[i]
          \/ a[i] >= 65 /\ a[i] <= 90 /\ b[i] = a[i] + 32
          \/ b[i] >= 65 /\ b[i] <= 90 /\ a[i] = b[i] + 32

ContentLengthLines(d) ==
    {i \in 1..Len(d.lines) : EqualsIgnoringCase(d.lines[i].key, T_content_length)}

\* The first header line with the key content-length, or 0.
FirstContentLengthLine(d) ==
    IF ContentLengthLines(d) = {} THEN 0
    ELSE CHOOSE i \in ContentLengthLines(d) : \A j \in ContentLengthLines(d) : i <= j

IsDecimal(v) == Len(v) > 0 /\ \A i \in 1..Len(v) : IsDigit(v[i])

\* The first content-length line, if any, holds a decimal number.
Framed(d) ==
    FirstContentLengthLine(d) = 0 \/ IsDecimal(d.lines[FirstContentLengthLine(d)].value)

FramingLength(d) ==
    IF FirstContentLengthLine(d) = 0 THEN 0
    ELSE DigitsValue(d.lines[FirstContentLengthLine(d)].value)

\* The length of the line terminator s begins with, or 0.
EolLen(s) ==
    IF Len(s) >= 1 /\ s[1] = 10 THEN 1
    ELSE IF Len(s) >= 2 /\ s[1] = 13 /\ s[2] = 10 THEN 2
    ELSE 0

\* s begins with a line terminator and then a second one.
ClosesRecord(s) == EolLen(s) > 0 /\ EolLen(Drop(s, EolLen(s))) > 0
ClosingLen(s) == EolLen(s) + EolLen(Drop(s, EolLen(s)))

\* s can still become the two closing terminators when more bytes arrive.
MayStillClose(s) ==
    \/ s = <<>> \/ s = <<13>>
    \/ EolLen(s) > 0 /\ Drop(s, EolLen(s)) \in {<<>>, <<13>>}

\* A value the grammar's value-text allows: no line terminator inside; the
\* spaces before it belong to the delimiter.
IsValueText(v) ==
    /\ \A i \in 1..Len(v) : v[i] # 10
    /\ \A i \in 1..(Len(v) - 1) : ~(v[i] = 13 /\ v[i + 1] = 10)
    /\ (Len(v) > 0 => v[1] # 32 /\ v[Len(v)] # 13)

\* The source begins with a well-formed record of the grammar.
WellFormed(d) ==
    /\ \A i \in 1..Len(d.lines) : IsValueText(d.lines[i].value)
    /\ Framed(d)
    /\ Len(d.payload) >= FramingLength(d)
    /\ ClosesRecord(Drop(d.payload, FramingLength(d)))

\* No header value holds a carriage return or begins with a tab.
PlainValues(d) ==
    \A i \in 1..Len(d.lines) :
        LET v == d.lines[i].value
        IN  (\A j \in 1..Len(v) : v[j] # 13) /\ (Len(v) > 0 => v[1] # 9)

\* The number of bytes of the source that come before the payload.
HeadLen(d) == Len(DocText(d)) - Len(d.payload)
\* The number of bytes of the record the source begins with.
RecordLen(d) ==
    HeadLen(d) + FramingLength(d) + ClosingLen(Drop(d.payload, FramingLength(d)))

Pairs(hs) == [i \in 1..Len(hs) |-> [key |-> hs[i].key, value |-> hs[i].value]]

\* What record() has to return for the record the source begins with.
ExpectedRecord(d) ==
    IOk(Drop(input, RecordLen(d)),
        [version |-> d.version, headers |-> Pairs(d.lines),
         body |-> Take(d.payload, FramingLength(d))])

ReturnedRecord ==
    IOk(Parsed.rest,
        [version |-> Parsed.out.version, headers |-> Pairs(Parsed.out.headers),
         body |-> Parsed.out.body])

\* The reader has called record() on a buffer that holds the whole record the
\* source begins with.
ParsedWholeRecord ==
    /\ mode = "stream"
    /\ parsed # None
    /\ WellFormed(Doc)
    /\ Len(input) >= RecordLen(Doc)

ParsedWholeSource ==
    /\ mode = "stream"
    /\ parsed # None
    /\ input = DocText(Doc)
    /\ PlainValues(Doc)

\* C17: the body length used for framing is the value of the first header
\* line whose key is "content-length" in any letter case, and zero when there
\* is none; later content-length lines, whatever their value, do not change
\* the framing and stay in the returned list.
C17_FirstContentLengthFrames ==
    ParsedWholeSource /\ Framed(Doc) =>
        /\ Parsed.kind = "Ok" =>
              /\ Parsed.out.body = Take(Doc.payload, FramingLength(Doc))
              /\ Pairs(Parsed.out.headers) = Pairs(Doc.lines)
        /\ WellFormed(Doc) => Parsed.kind = "Ok"

\* record() framed a one-byte body by the first content-length line and kept
\* a later content-length line whose value is no number.
C17_Witness ==
    /\ ParsedWholeSource
    /\ Parsed.kind = "Ok"
    /\ Len(Doc.lines) = 2
    /\ Doc.lines[1].key = T_Content_Length /\ Doc.lines[1].value = T_1
    /\ Doc.lines[2].key = T_content_length /\ Doc.lines[2].value = T_R2D2
    /\ Len(Parsed.out.body) = 1
    /\ Parsed.out.headers[2].value = T_R2D2

\* The reader has called record() on a proper prefix of the record the source
\* begins with.
ParsedProperPrefix ==
    /\ mode = "stream"
    /\ parsed # None
    /\ WellFormed(Doc)
    /\ Len(input) < RecordLen(Doc)

C19_ContentLengthNotANumber ==
    mode = "stream" /\ parsed # None /\ ~Framed(Doc) =>
        /\ Parsed.kind # "Ok"
        /\ Len(input) > HeadLen(Doc) - Len(Doc.eol) => Parsed.kind = "Error"

\* record() returned the Verify error at the blank line for header lines that
\* are each well-formed, the first content-length being R2D2.
C19_Witness ==
    /\ mode = "stream" /\ parsed # None /\ ~Framed(Doc)
    /\ PlainValues(Doc)
    /\ Doc.lines[FirstContentLengthLine(Doc)].value = T_R2D2
    /\ Parsed.kind = "Error" /\ Parsed.code = "Verify"
    /\ Parsed.rest = Drop(input, HeadLen(Doc) - Len(Doc.eol))

\* C20: the body is the next content-length bytes after the blank line,
\* whatever they are; record() returns a record exactly when a line
\* terminator and then a second one follow them, and an error when other
\* bytes stand there.
C20_BodyVerbatimThenTwoTerminators ==
    ParsedWholeSource /\ Framed(Doc) =>
        LET n == FramingLength(Doc)
            framed == Len(Doc.payload) >= n
            after == Drop(Doc.payload, n)
        IN  /\ Parsed.kind = "Ok" <=> framed /\ ClosesRecord(after)
            /\ Parsed.kind = "Ok" => Parsed.out.body = Take(Doc.payload, n)
            /\ framed /\ ~ClosesRecord(after) /\ ~MayStillClose(after)
                  => Parsed.kind = "Error"

\* record() returned a body that is the literal "WARC/".
C20_Witness ==
    /\ ParsedWholeSource /\ Framed(Doc)
    /\ Parsed.kind = "Ok"
    /\ Parsed.out.body = T_tag_warc

\* The reader's buffer ends inside the first header line of the source: after
\* the version line, with at least one byte of the header line and before
\* the line's terminator.
MidHeaderLine ==
    LET start == Len(T_tag_warc \o Doc.version \o Doc.eol)
        line == Doc.lines[1]
    IN  /\ Len(input) > start
        /\ Len(input) <= start + Len(LineText(line)) - Len(line.eol)

\* C28: the parser has a complete-buffer mode in which running out of bytes
\* in the middle of a record is a grammar error and not need-more-input: a
\* buffer that ends in the middle of a header line is refused with an error.
C28_MidHeaderLineIsGrammarFailure ==
    mode = "stream" /\ parsed # None /\ MidHeaderLine => Parsed.kind = "Error"

\* ------------------------------------------------- Display for RawRecord

\* WarcHeader::to_string: the standard's casing of the known header names.
WarcHeader_to_string(k) ==
    CASE k = ContentLength -> T_Content_Length
      [] k = WarcType -> <<87, 65, 82, 67, 45, 84, 121, 112, 101>>
      [] k = RecordID -> <<87, 65, 82, 67, 45, 82, 101, 99, 111, 114, 100, 45, 73, 68>>
      [] k = Date -> <<87, 65, 82, 67, 45, 68, 97, 116, 101>>
      [] k = Truncated -> <<87, 65, 82, 67, 45, 84, 114, 117, 110, 99, 97, 116, 101, 100>>
      [] k = TargetURI -> <<87, 65, 82, 67, 45, 84, 97, 114, 103, 101, 116, 45, 85, 82, 73>>

\* String::from_utf8_lossy: the text, with U+FFFD (EF BF BD) for each byte
\* that is no part of a UTF-8 sequence (decoded as in Utf8From).
RECURSIVE Utf8LossyFrom(_, _)
Utf8LossyFrom(b, i) ==
    IF i > Len(b) THEN <<>>
    ELSE IF b[i] < 128 THEN <<b[i]>> \o Utf8LossyFrom(b, i + 1)
    ELSE IF b[i] >= 194 /\ b[i] <= 223 /\ i + 1 <= Len(b)
            /\ b[i + 1] >= 128 /\ b[i + 1] <= 191
         THEN <<b[i], b[i + 1]>> \o Utf8LossyFrom(b, i + 2)
    ELSE <<239, 191, 189>> \o Utf8LossyFrom(b, i + 1)

from_utf8_lossy(b) == Utf8LossyFrom(b, 1)

\* From<Record<BufferedBody>> for RawRecord
RawRecord_from(r) ==
    RawRecord(into_raw_parts(r).version, into_raw_parts(r).headers, into_raw_parts(r).body)

\* The orders in which HashMap::iter can yield the keys of S.
RECURSIVE IterOrders(_)
IterOrders(S) ==
    IF S = {} THEN {<<>>}
    ELSE UNION {{<<k>> \o o : o \in IterOrders(S \ {k})} : k \in S}

\* Display for RawRecord, the map's iterator yielding the keys in this order.
\* writeln! ends what it writes with "\n".
RawRecord_fmt(r, order) ==
    T_tag_warc \o r.version \o T_lf
    \o Concat([i \in 1..Len(order) |->
                  WarcHeader_to_string(order[i]) \o <<58, 32>>
                  \o from_utf8_lossy(r.headers[order[i]]) \o T_lf])
    \o T_lf
    \o (IF Len(r.body) # 0 THEN T_lf \o from_utf8_lossy(r.body) \o T_lf ELSE <<>>)
    \o T_lf

\* ------------------------------------------------ writing and reading back

\* The typed records the writer holds: fresh ones (version "WARC/1.0", the
\* time of creation with its sub-second part) and ones changed by the setters.
WrittenRecords ==
    { Record(v, h, d, T_id_test, t, tr, b) :
        v \in {T_warc10, T_ver10},
        h \in {EmptyMap, MapInsert(EmptyMap, TargetURI, T_uri_a)},
        d \in Nows \cup {DateTime(T_civil_a, 0)},
        t \in {RecordType_from(T_request)},
        tr \in {None, Some(TruncatedType_from(T_length))},
        b \in Bodies }

InitWriter ==
    /\ mode = "typed"
    /\ rec \in {Some(r) : r \in WrittenRecords}
    /\ input = <<>>
    /\ parsed = None
    /\ raw = EmptyRaw
    /\ pre = None
    /\ last = NoOp
    /\ builder = None
    /\ bpre = None
    /\ failed = None
    /\ doc = None

\* format!("{}", RawRecord::from(record)): the text form is written.
WriteRecord ==
    /\ mode = "typed"
    /\ mode' = "written"
    /\ \E order \in IterOrders(DOMAIN RawRecord_from(Unwrap(rec)).headers) :
          input' = RawRecord_fmt(RawRecord_from(Unwrap(rec)), order)
    /\ UNCHANGED <<raw, rec, pre, last, builder, bpre, failed, doc, parsed>>

\* The bytes written are read back with the parser's record().
ReadBack ==
    /\ mode = "written"
    /\ parsed = None
    /\ parsed' = Some(parser_record(input))
    /\ UNCHANGED <<mode, raw, rec, pre, last, builder, bpre, failed, doc, input>>

NextWriter ==
    \/ WriteRecord
    \/ ReadBack

SpecWriter == InitWriter /\ [][NextWriter]_vars

\* ------------------------------------------- claims about the written text

\* The canonical identity of a header token: the known key whose name the
\* token is in some letter case.
WarcHeader_from(token) ==
    CHOOSE k \in RawKeys : EqualsIgnoringCase(WarcHeader_to_string(k), token)

\* The raw record of a parsed record: its lines folded into the map by
\* canonical key, a later line replacing an earlier one of the same key.
RECURSIVE FoldHeaders(_, _, _)
FoldHeaders(hs, i, m) ==
    IF i > Len(hs) THEN m
    ELSE FoldHeaders(hs, i + 1, MapInsert(m, WarcHeader_from(hs[i].key), hs[i].value))

RawRecord_from_parsed(w) == RawRecord(w.version, FoldHeaders(w.headers, 1, EmptyMap), w.body)

\* C11: a typed record turned into a raw record, written as text, parsed by
\* record() and converted back is the original in every field, the timestamp
\* cut to whole seconds.
C11_WriteParseConvertRoundTrip ==
    mode = "written" /\ parsed # None =>
        /\ Parsed.kind = "Ok"
        /\ Parsed.rest = <<>>
        /\ \A now \in Nows, urn \in UuidUrns :
              LET back == try_from(RawRecord_from_parsed(Parsed.out), now,
                                   generate_record_id(urn))
              IN  /\ back.ok
                  /\ Unwrap(back.val) =
                        [Rec EXCEPT !.record_date = DateTime(Rec.record_date.civil, 0)]

\* C12: every line of the text written for a raw record ends with carriage
\* return + line feed: no line feed of the text stands without a carriage
\* return before it.  (No header value or body written here holds a line
\* feed: every line feed of the text ends a line.)
C12_LinesEndWithCRLF ==
    mode = "written" =>
        \A i \in 1..Len(input) : input[i] = 10 => i > 1 /\ input[i - 1] = 13

\* ------------------------------------------------------------ RecordBuilder

RecordBuilder(value, broken_headers, last_error) ==
    [value |-> value, broken_headers |-> broken_headers, last_error |-> last_error]

\* RecordBuilder::default()
RecordBuilder_default(now, id) == RecordBuilder(Record_default(now, id), EmptyMap, None)

\* A date setter that also takes a refused date out of the broken table.
builder_date_ClearsBroken(b, d) ==
    [b EXCEPT !.value = set_date(b.value, d),
              !.broken_headers = MapRemove(b.broken_headers, Date)]

\* RecordBuilder::body, date, warc_id, version, warc_type, truncated_type
builder_body(b, bytes) == [b EXCEPT !.value = replace_body(b.value, bytes)]
builder_date(b, d) == [b EXCEPT !.value = set_date(b.value, d)]
builder_warc_id(b, id) == [b EXCEPT !.value = set_warc_id(b.value, id)]
builder_version(b, v) == [b EXCEPT !.value = set_warc_version(b.value, v)]
builder_warc_type(b, t) == [b EXCEPT !.value = set_warc_type(b.value, t)]
builder_truncated_type(b, t) == [b EXCEPT !.value = set_truncated_type(b.value, t)]

\* A header that remembers only the first failure.
builder_header_KeepFirst(b, key, value) ==
    LET broken == MapInsert(b.broken_headers, key, value)
        res == set_header(b.value, key, value)
        keep(e) == IF IsSome(b.last_error) THEN b.last_error ELSE e
    IN  IF from_utf8_ok(value)
        THEN IF ~res.ok
             THEN [b EXCEPT !.value = res.rec, !.broken_headers = broken,
                            !.last_error = keep(res.err)]
             ELSE [b EXCEPT !.value = res.rec,
                            !.broken_headers = MapRemove(broken, key)]
        ELSE [b EXCEPT !.broken_headers = broken,
                       !.last_error = keep(Some(MalformedHeader(key, "not a UTF-8 string")))]

\* A header that does not keep the bytes of a failed assignment.
builder_header_DropsBytes(b, key, value) ==
    LET res == set_header(b.value, key, value)
    IN  IF from_utf8_ok(value)
        THEN IF ~res.ok
             THEN [b EXCEPT !.value = res.rec, !.last_error = res.err]
             ELSE [b EXCEPT !.value = res.rec,
                            !.broken_headers = MapRemove(b.broken_headers, key)]
        ELSE [b EXCEPT !.last_error = Some(MalformedHeader(key, "not a UTF-8 string"))]

\* A header that leaves the bytes in the broken table when they are accepted.
builder_header_KeepsBroken(b, key, value) ==
    LET broken == MapInsert(b.broken_headers, key, value)
        res == set_header(b.value, key, value)
    IN  IF from_utf8_ok(value)
        THEN IF ~res.ok
             THEN [b EXCEPT !.value = res.rec, !.broken_headers = broken,
                            !.last_error = res.err]
             ELSE [b EXCEPT !.value = res.rec, !.broken_headers = broken]
        ELSE [b EXCEPT !.broken_headers = broken,
                       !.last_error = Some(MalformedHeader(key, "not a UTF-8 string"))]

\* A header that forgets the remembered failure once an accepted assignment
\* empties the broken table.
builder_header_ForgetsFailure(b, key, value) ==
    LET broken == MapInsert(b.broken_headers, key, value)
        res == set_header(b.value, key, value)
        left == MapRemove(broken, key)
    IN  IF from_utf8_ok(value)
        THEN IF ~res.ok
             THEN [b EXCEPT !.value = res.rec, !.broken_headers = broken,
                            !.last_error = res.err]
             ELSE [b EXCEPT !.value = res.rec, !.broken_headers = left,
                            !.last_error = IF left = EmptyMap THEN None ELSE @]
        ELSE [b EXCEPT !.broken_headers = broken,
                       !.last_error = Some(MalformedHeader(key, "not a UTF-8 string"))]

\* A header that stores bytes that are no text without remembering a failure.
builder_header_SilentOnBytes(b, key, value) ==
    LET broken == MapInsert(b.broken_headers, key, value)
        res == set_header(b.value, key, value)
    IN  IF from_utf8_ok(value)
        THEN IF ~res.ok
             THEN [b EXCEPT !.value = res.rec, !.broken_headers = broken,
                            !.last_error = res.err]
             ELSE [b EXCEPT !.value = res.rec,
                            !.broken_headers = MapRemove(broken, key)]
        ELSE [b EXCEPT !.broken_headers = broken]

\* RecordBuilder::header: the bytes go into broken_headers; they are taken
\* out again when they are text and set_header accepts them.
builder_header(b, key, value) ==
    LET broken == MapInsert(b.broken_headers, key, value)
        res == set_header(b.value, key, value)
    IN  IF from_utf8_ok(value)
        THEN IF ~res.ok
             THEN [b EXCEPT !.value = res.rec, !.broken_headers = broken,
                            !.last_error = res.err]
             ELSE [b EXCEPT !.value = res.rec,
                            !.broken_headers = MapRemove(broken, key)]
        ELSE [b EXCEPT !.broken_headers = broken,
                       !.last_error = Some(MalformedHeader(key, "not a UTF-8 string"))]

\* The unwrap inside set_header panics during RecordBuilder::header.
builder_header_panics(b, key, value) ==
    from_utf8_ok(value) /\ set_header(b.value, key, value).panic

\* An extend that keeps the entries m already has.
MapExtend_KeepExisting(m, other) ==
    [k \in (DOMAIN m) \cup (DOMAIN other) |-> IF k \in DOMAIN m THEN m[k] ELSE other[k]]

\* HashMap::extend: every entry of other, over the entries of m.
MapExtend(m, other) ==
    [k \in (DOMAIN m) \cup (DOMAIN other) |-> IF k \in DOMAIN other THEN other[k] ELSE m[k]]

\* RecordBuilder::build_raw, in a build with debug assertions.
build_raw(b) ==
    LET parts == into_raw_parts(b.value)
    IN  [version |-> parts.version,
         headers |-> MapExtend(parts.headers, b.broken_headers),
         body |-> parts.body,
         assert_ok |-> parts.assert_ok]

\* RecordBuilder::build, in a build with debug assertions.
build(b) ==
    IF IsSome(b.last_error)
    THEN [res |-> Err(Unwrap(b.last_error)), assert_ok |-> TRUE]
    ELSE [res |-> Ok(b.value), assert_ok |-> b.broken_headers = EmptyMap]

\* ------------------------------------------------ the builder's caller

\* The bodies the caller gives the builder.
BuilderBodies == {[i \in 1..n |-> 97] : n \in 0..MaxBody}

\* The bytes the caller passes to RecordBuilder::header, per key.
BuilderValues(k) ==
    CASE k = ContentLength -> LengthTexts
      [] k = WarcType -> {T_request}
      [] k = RecordID -> {T_id_test}
      [] k = Date -> {T_date_b, T_yesterday}
      [] k = Truncated -> {T_length}
      [] k = TargetURI -> {T_uri_a, T_bad_utf8}

InitBuilder ==
    /\ mode = "building"
    /\ builder \in {Some(RecordBuilder_default(now, generate_record_id(urn))) :
                       now \in Nows, urn \in UuidUrns}
    /\ bpre = None
    /\ failed = None
    /\ last = NoOp
    /\ raw = EmptyRaw
    /\ rec = None
    /\ pre = None
    /\ doc = None
    /\ input = <<>>
    /\ parsed = None

\* The caller holds a builder and no result of an earlier call.
BuilderIdle == mode = "building" /\ last = NoOp

\* A call on the builder that leaves builder b and reports l; f is the error
\* of the most recent header assignment that failed, this call included.
BuilderStep(b, l, f) ==
    /\ mode' = IF l.panic THEN "panicked" ELSE "building"
    /\ bpre' = builder
    /\ builder' = Some(b)
    /\ last' = l
    /\ failed' = f
    /\ UNCHANGED <<raw, rec, pre, doc, input, parsed>>

BuilderBody(b) ==
    /\ BuilderIdle
    /\ BuilderStep(builder_body(Unwrap(builder), b),
                   [NoOp EXCEPT !.op = "body", !.val = b], failed)

BuilderDate(d) ==
    /\ BuilderIdle
    /\ BuilderStep(builder_date(Unwrap(builder), d),
                   [NoOp EXCEPT !.op = "date", !.val = to_rfc3339_opts_secs_z(d)],
                   failed)

BuilderWarcId(id) ==
    /\ BuilderIdle
    /\ BuilderStep(builder_warc_id(Unwrap(builder), id),
                   [NoOp EXCEPT !.op = "warc_id", !.val = id], failed)

BuilderVersion(v) ==
    /\ BuilderIdle
    /\ BuilderStep(builder_version(Unwrap(builder), v),
                   [NoOp EXCEPT !.op = "version", !.val = v], failed)

BuilderWarcType(t) ==
    /\ BuilderIdle
    /\ BuilderStep(builder_warc_type(Unwrap(builder), t),
                   [NoOp EXCEPT !.op = "warc_type", !.val = RecordType_to_string(t)],
                   failed)

BuilderTruncatedType(t) ==
    /\ BuilderIdle
    /\ BuilderStep(builder_truncated_type(Unwrap(builder), t),
                   [NoOp EXCEPT !.op = "truncated_type",
                                !.val = TruncatedType_to_string(t)],
                   failed)

\* What makes the assignment header(k, v) on the in-progress record r fail:
\* bytes that are no text, or text the typed setter of k refuses.
HeaderFault(r, k, v) ==
    IF ~from_utf8_ok(v) THEN Some(MalformedHeader(k, "not a UTF-8 string"))
    ELSE set_header(r, k, v).err

BuilderHeader(k, v) ==
    /\ BuilderIdle
    /\ LET fault == HeaderFault(Unwrap(builder).value, k, v)
       IN  BuilderStep(builder_header(Unwrap(builder), k, v),
                       [NoOp EXCEPT !.op = "header", !.key = k, !.val = v,
                                    !.ok = fault = None, !.err = fault,
                                    !.panic = builder_header_panics(Unwrap(builder), k, v)],
                       IF fault = None THEN failed ELSE fault)

\* builder.clone().build_raw()
BuildRaw ==
    /\ BuilderIdle
    /\ LET parts == build_raw(Unwrap(builder))
       IN  BuilderStep(Unwrap(builder),
                       [NoOp EXCEPT !.op = "build_raw",
                                    !.out = Some(RawRecord(parts.version, parts.headers,
                                                           parts.body)),
                                    !.panic = ~parts.assert_ok],
                       failed)

\* builder.clone().build()
Build ==
    /\ BuilderIdle
    /\ LET built == build(Unwrap(builder))
       IN  BuilderStep(Unwrap(builder),
                       [NoOp EXCEPT !.op = "build", !.ok = built.res.ok,
                                    !.out = built.res.val, !.err = built.res.err,
                                    !.panic = ~built.assert_ok],
                       failed)

\* The caller has looked at what the last call returned and lets go of it.
BuilderDropResult ==
    /\ mode = "building"
    /\ last # NoOp
    /\ last' = NoOp
    /\ bpre' = None
    /\ UNCHANGED <<mode, raw, rec, pre, builder, failed, doc, input, parsed>>

NextBuilder ==
    \/ \E b \in BuilderBodies : BuilderBody(b)
    \/ \E d \in {DateTime(T_civil_b, 0)} : BuilderDate(d)
    \/ \E id \in RecordIds : BuilderWarcId(id)
    \/ \E v \in Versions : BuilderVersion(v)
    \/ \E t \in {RecordType_from(T_request)} : BuilderWarcType(t)
    \/ \E t \in TruncatedTypes : BuilderTruncatedType(t)
    \/ \E k \in SetKeys : \E v \in BuilderValues(k) : BuilderHeader(k, v)
    \/ BuildRaw
    \/ Build
    \/ BuilderDropResult

SpecBuilder == InitBuilder /\ [][NextBuilder]_vars

Bld == Unwrap(builder)
BPre == Unwrap(bpre)

\* ------------------------------------------------ claims about the builder

\* C13: build() returns Ok(the typed record) exactly when no header
\* assignment has failed; otherwise it returns the error of the most recent
\* header assignment that failed.
C13_BuildReturnsLatestFailure ==
    mode = "building" /\ last.op = "build" =>
        /\ last.ok <=> failed = None
        /\ last.ok => last.out = Some(Bld.value)
        /\ ~last.ok => last.err = failed
        /\ Bld.last_error = failed

\* build() returned the error of the latest of two failed assignments: the
\* content length failed first, the date after it.
C13_Witness ==
    /\ mode = "building" /\ last.op = "build" /\ ~last.ok
    /\ DOMAIN Bld.broken_headers = {ContentLength, Date}
    /\ Unwrap(last.err).header = Date

\* The bytes header(k, v) stores are refused: they are no text, or k is the
\* date and v is no RFC 3339 date, or k is the content length and v is not
\* the decimal length of the body.
FailsValidation(r, k, v) ==
    \/ ~from_utf8_ok(v)
    \/ k = Date /\ parse_from_rfc3339(v) = None
    \/ k = ContentLength /\ (parse_u64(v) = None \/ Unwrap(parse_u64(v)) # Len(r.body))

\* C14: build_raw() succeeds after any sequence of builder calls; its header
\* map is the synthesized raw form of the in-progress record with every
\* entry of the broken table over it, so that after a failed header(k, v) the
\* map holds v under k.
C14_BuildRawOverridesWithBroken ==
    /\ mode = "building" /\ last.op = "build_raw" =>
          LET out == Unwrap(last.out)
              synth == into_raw_parts(Bld.value)
              broken == Bld.broken_headers
          IN  /\ ~last.panic
              /\ out.version = synth.version
              /\ out.body = synth.body
              /\ DOMAIN out.headers = (DOMAIN synth.headers) \cup (DOMAIN broken)
              /\ \A k \in DOMAIN out.headers :
                    out.headers[k] = IF k \in DOMAIN broken THEN broken[k]
                                     ELSE synth.headers[k]
    /\ mode = "building" /\ last.op = "header"
          /\ FailsValidation(BPre.value, last.key, last.val) =>
          build_raw(Bld).headers[last.key] = last.val

\* build_raw() returned "1" as the content length of a two-byte body, and the
\* refused date text as the date.
C14_Witness ==
    /\ mode = "building" /\ last.op = "build_raw"
    /\ Len(Bld.value.body) = 2
    /\ Unwrap(last.out).headers[ContentLength] = T_1
    /\ Unwrap(last.out).headers[Date] = T_yesterday

\* C15: a header(k, bytes) that fails validation leaves the in-progress typed
\* record as it was, stores exactly those bytes under k in the broken table
\* and replaces the remembered failure by this one; and it fails in no other
\* case.
C15_FailedHeaderLeavesRecord ==
    mode = "building" /\ last.op = "header" =>
        /\ FailsValidation(BPre.value, last.key, last.val) <=> ~last.ok
        /\ ~last.ok =>
              /\ Bld.value = BPre.value
              /\ last.key \in DOMAIN Bld.broken_headers
              /\ Bld.broken_headers[last.key] = last.val
              /\ \A k \in (DOMAIN BPre.broken_headers) \ {last.key} :
                    k \in DOMAIN Bld.broken_headers
                    /\ Bld.broken_headers[k] = BPre.broken_headers[k]
              /\ Bld.last_error = last.err
              /\ Unwrap(Bld.last_error).kind = "MalformedHeader"
              /\ Unwrap(Bld.last_error).header = last.key

\* header(TargetURI, bytes that are no text) failed after an earlier failure
\* of the date, which it replaced.
C15_Witness ==
    /\ mode = "building" /\ last.op = "header" /\ ~last.ok
    /\ last.key = TargetURI /\ last.val = T_bad_utf8
    /\ IsSome(BPre.last_error) /\ Unwrap(BPre.last_error).header = Date
    /\ Unwrap(Bld.last_error).header = TargetURI
    /\ Bld.broken_headers[TargetURI] = T_bad_utf8

\* The typed record r holds v as the value of k: the typed field of a promoted
\* key is the value v denotes, the map holds v under every other key.
Applied(r, k, v) ==
    CASE k = Date -> Some(r.record_date) = parse_from_rfc3339(v)
      [] k = RecordID -> r.record_id = v
      [] k = WarcType -> r.record_type = RecordType_from(v)
      [] k = Truncated -> r.truncated_type = Some(TruncatedType_from(v))
      [] k = ContentLength -> parse_u64(v) = Some(Len(r.body))
      [] OTHER -> MapGet(r.headers, k) = Some(v)

\* C22: when header(k, bytes) passes validation, the value is applied to the
\* in-progress typed record, the broken table afterwards has no entry for k,
\* and its entries for every other key are as they were.
C22_AcceptedHeaderClearsBrokenEntry ==
    mode = "building" /\ last.op = "header" /\ last.ok =>
        /\ Applied(Bld.value, last.key, last.val)
        /\ last.key \notin DOMAIN Bld.broken_headers
        /\ DOMAIN Bld.broken_headers = (DOMAIN BPre.broken_headers) \ {last.key}
        /\ \A k \in DOMAIN Bld.broken_headers :
              Bld.broken_headers[k] = BPre.broken_headers[k]
        /\ Bld.last_error = BPre.last_error

\* header(Date, a valid date) was accepted on a builder whose broken table
\* held a refused date and a refused content length; the content length stays.
C22_Witness ==
    /\ mode = "building" /\ last.op = "header" /\ last.ok
    /\ last.key = Date
    /\ DOMAIN BPre.broken_headers = {Date, ContentLength}
    /\ DOMAIN Bld.broken_headers = {ContentLength}
    /\ Bld.value.record_date # BPre.value.record_date

\* The builder after the dedicated setter of typed key k is given the typed
\* value the text v denotes.
ViaFieldSetter(b, k, v) ==
    CASE k = WarcType -> builder_warc_type(b, RecordType_from(v))
      [] k = Date -> builder_date(b, Unwrap(parse_from_rfc3339(v)))
      [] k = RecordID -> builder_warc_id(b, v)
      [] k = Truncated -> builder_truncated_type(b, TruncatedType_from(v))

\* C23: header(k, valid text) for the record type, the date, the record id
\* and the truncation reason leaves the same in-progress typed record, and
\* builds the same result, as the dedicated field setter given the
\* corresponding typed value.
C23_HeaderEqualsFieldSetter ==
    (/\ mode = "building" /\ last.op = "header" /\ last.ok
     /\ last.key \in {WarcType, Date, RecordID, Truncated}) =>
        LET setter == ViaFieldSetter(BPre, last.key, last.val)
        IN  /\ Bld.value = setter.value
            /\ build(Bld).res = build(setter).res

\* header(WarcType, "request") was accepted on a builder whose record had
\* another type, and build() returns the record.
C23_Witness ==
    /\ mode = "building" /\ last.op = "header" /\ last.ok
    /\ last.key = WarcType /\ last.val = T_request
    /\ BPre.value.record_type # RecordType_from(T_request)
    /\ build(Bld).res = Ok(builder_warc_type(BPre, RecordType_from(T_request)).value)

\* C29: a remembered failure is never cleared.  A header assignment that
\* fails makes build() return an error, and once build() returns an error on
\* a builder it returns an error after every further call on it, also after
\* an accepted assignment to the same key has emptied the broken table.
C29_FailureIsNeverCleared ==
    [][/\ (last'.op = "header" /\ ~last'.ok) => ~build(Unwrap(builder')).res.ok
       /\ ~build(Bld).res.ok => ~build(Unwrap(builder')).res.ok]_vars

\* build() returned the error of a refused date after a later header(Date, _)
\* was accepted and left the broken table empty.
C29_Witness ==
    /\ mode = "building" /\ last.op = "build" /\ ~last.ok
    /\ Unwrap(last.err).header = Date
    /\ Bld.broken_headers = EmptyMap
    /\ Applied(Bld.value, Date, T_date_b)

\* The calls of the builder's dedicated field setters, and the field of the
\* in-progress record each of them sets.
FieldSetterOps == {"body", "date", "warc_id", "version", "warc_type", "truncated_type"}
FieldOf(op) ==
    CASE op = "body" -> "body"
      [] op = "date" -> "record_date"
      [] op = "warc_id" -> "record_id"
      [] op = "version" -> "version"
      [] op = "warc_type" -> "record_type"
      [] op = "truncated_type" -> "truncated_type"

\* C30: the dedicated field setters change only their field of the
\* in-progress typed record; the broken table and the remembered failure stay
\* as they were, so every broken entry still overrides the synthesized value
\* in build_raw after the field has been set to a valid value.
C30_FieldSettersLeaveBrokenTable ==
    (mode = "building" /\ last.op \in FieldSetterOps) =>
        /\ Bld.broken_headers = BPre.broken_headers
        /\ Bld.last_error = BPre.last_error
        /\ \A f \in (DOMAIN Bld.value) \ {FieldOf(last.op)} :
              Bld.value[f] = BPre.value[f]
        /\ \A k \in DOMAIN BPre.broken_headers :
              build_raw(Bld).headers[k] = BPre.broken_headers[k]
        /\ build(Bld).res.ok = build(BPre).res.ok

\* date(d) was called on a builder whose broken table holds a refused date:
\* the record holds d, and build_raw still gives the refused text.
C30_Witness ==
    /\ mode = "building" /\ last.op = "date"
    /\ Date \in DOMAIN Bld.broken_headers
    /\ Bld.broken_headers[Date] = T_yesterday
    /\ Bld.value.record_date = DateTime(T_civil_b, 0)
    /\ BPre.value.record_date # DateTime(T_civil_b, 0)
    /\ build_raw(Bld).headers[Date] = T_yesterday

\* C32: in every reachable builder state a non-empty broken table implies a
\* remembered failure; so whenever build() takes its success path the broken
\* table is empty and its debug assertion holds.
C32_BrokenImpliesRememberedFailure ==
    builder # None =>
        /\ Bld.broken_headers # EmptyMap => IsSome(Bld.last_error)
        /\ build(Bld).assert_ok
        /\ last.op = "build" =>
              /\ ~last.panic
              /\ last.ok => Bld.broken_headers = EmptyMap

\* build() took its success path on a builder that was given a body and an
\* accepted header: the broken table is empty.
C32_Witness ==
    /\ mode = "building" /\ last.op = "build" /\ last.ok
    /\ TargetURI \in DOMAIN Bld.value.headers
    /\ Len(Bld.value.body) > 0
    /\ Bld.broken_headers = EmptyMap

\* ------------------------------------------- header lines, one per key byte

\* The lines "<chr>: 1\n" and "x<chr>: 1\n", for every byte chr.
TokenLines ==
    {HeaderLine(pre_key \o <<chr>>, <<>>, <<32>>, T_1, T_lf) :
        pre_key \in {<<>>, T_x}, chr \in 0..255}

InitToken ==
    /\ mode = "token"
    /\ doc \in {Some(l) : l \in TokenLines}
    /\ input = LineText(Unwrap(doc))
    /\ parsed = None
    /\ raw = EmptyRaw
    /\ rec = None
    /\ pre = None
    /\ last = NoOp
    /\ builder = None
    /\ bpre = None
    /\ failed = None

\* header() is called on the line.
ParseHeader ==
    /\ mode = "token"
    /\ parsed = None
    /\ parsed' = Some(parser_header(input))
    /\ UNCHANGED <<mode, raw, rec, pre, last, builder, bpre, failed, doc, input>>

SpecToken == InitToken /\ [][ParseHeader]_vars

\* --------------------------------------------- claims about the token bytes

\* ( ) < > @ , ; : " / [ ] ? = { } space backslash
Separators == {40, 41, 60, 62, 64, 44, 59, 58, 34, 47, 91, 93, 63, 61, 123, 125, 32, 92}

\* header() took the whole key of the line as the token.
KeyAccepted == Parsed.kind = "Ok" /\ Parsed.out.key = Doc.key

\* C21: a byte is accepted as part of a header token if and only if it is
\* printable ASCII (33..126) and none of the separators; every control byte
\* (0..31 and 127) and every high-bit byte (128..255) is rejected.
C21_TokenIsPrintableNonSeparator ==
    mode = "token" /\ parsed # None =>
        LET chr == Doc.key[Len(Doc.key)]
        IN  KeyAccepted <=> (chr \in 33..126 /\ chr \notin Separators)

\* ---------------------------------------- the reader retrying on more bytes

\* The most bytes the reader adds to the buffer it started with.
MaxExtra == 6

\* The bytes a source may deliver next: "\n", "\r", "a", ":".
RetryBytes == {10, 13, 97, 58}

\* The buffers the reader starts with:
\*   "WARC/1.0"   "WARC/1.0\nx:\n"   "WARC/1.0\r\nContent-Length: 1\r\n"
\*   "WARC/1.0\ncontent-length: R2D2\r\n"
RetryHeads ==
    { T_tag_warc \o T_ver10,
      T_tag_warc \o T_ver10 \o T_lf
          \o LineText(HeaderLine(T_x, <<>>, <<>>, <<>>, T_lf)),
      T_tag_warc \o T_ver10 \o T_crlf
          \o LineText(HeaderLine(T_Content_Length, <<>>, <<32>>, T_1, T_crlf)),
      T_tag_warc \o T_ver10 \o T_lf
          \o LineText(HeaderLine(T_content_length, <<>>, <<32>>, T_R2D2, T_crlf)) }

\* History: the first buffer on which record() returned a record or an
\* error, with what it returned; first is what was noted before this call.
Outcome(first, in, r) ==
    IF first # None \/ r.kind = "Incomplete" THEN first
    ELSE Some([buffer |-> in, result |-> r])

InitRetry ==
    /\ mode = "retry"
    /\ input \in RetryHeads
    /\ parsed = Some(parser_record(input))
    /\ doc = Outcome(None, input, parser_record(input))
    /\ last = [NoOp EXCEPT !.op = "retry"]
    /\ raw = EmptyRaw
    /\ rec = None
    /\ pre = None
    /\ builder = None
    /\ bpre = None
    /\ failed = None

\* The source delivers byte b; the reader appends it to its buffer and calls
\* record() on the whole buffer again.  last.val is what was appended so far.
Retry(b) ==
    /\ mode = "retry"
    /\ Len(last.val) < MaxExtra
    /\ input' = Append(input, b)
    /\ parsed' = Some(parser_record(input'))
    /\ doc' = Outcome(doc, input', parser_record(input'))
    /\ last' = [last EXCEPT !.val = Append(@, b)]
    /\ UNCHANGED <<mode, raw, rec, pre, builder, bpre, failed>>

NextRetry == \E b \in RetryBytes : Retry(b)

SpecRetry == InitRetry /\ [][NextRetry]_vars

\* ------------------------------------------------ claims about the retry

\* C31: retrying record() on an extended buffer is stable.  If record()
\* returned record R and remainder T on buffer B, then on B followed by any
\* bytes X it returns R and T followed by X; and if it returned an error on
\* B, it returns a record on no extension of B.
C31_RetryIsStable ==
    mode = "retry" /\ doc # None =>
        LET first == Doc.result
            X == Drop(input, Len(Doc.buffer))
        IN  /\ Take(input, Len(Doc.buffer)) = Doc.buffer
            /\ first.kind = "Ok" =>
                  /\ Parsed.kind = "Ok"
                  /\ Parsed.out = first.out
                  /\ Parsed.rest = first.rest \o X
            /\ first.kind = "Error" => Parsed.kind # "Ok"

\* record() returned a record with a body of one byte, and returns it again
\* on the buffer extended by two more bytes, which it leaves as remainder.
C31_Witness ==
    /\ mode = "retry" /\ doc # None
    /\ Doc.result.kind = "Ok"
    /\ Len(Doc.result.out.body) = 1
    /\ Len(input) = Len(Doc.buffer) + 2
    /\ Parsed.kind = "Ok"
    /\ Len(Parsed.rest) = 2

====
